---- MODULE Spec2Model ----
(***************************************************************************)
(* Progression core of Xianxia Idle (src/js/main.js): stage-cost model,    *)
(* skill ledger, resource engine, lifespan controller, reincarnation       *)
(* state machine, modal channel and the frame loop.                        *)
(*                                                                         *)
(* Number representation.  JavaScript numbers are modelled as exact        *)
(* scaled integers:                                                        *)
(*   - Qi amounts (qi, lifetimeQi, gains, costs paid) in hundredths (cQi); *)
(*   - ages and lifespans in hundredths of a year (cy);                    *)
(*   - time speeds in quarters (speed 1x = 4, 0.25x = 1);                  *)
(*   - multipliers in ten-thousandths (E4);                                *)
(*   - stageRequirement scales in hundredths (1.42 = 142).                 *)
(* Stage requirements grow like stageScale^99 and are computed on          *)
(* arbitrary-precision naturals (sequences of base-10^4 digits, least      *)
(* significant first), so Math.floor is exact.  Math.exp is a fixed-point  *)
(* power of its value at 1 (E4, rounded down).                             *)
(***************************************************************************)
EXTENDS Integers, Sequences, FiniteSets, TLC

Max(a, b) == IF a >= b THEN a ELSE b
Min(a, b) == IF a <= b THEN a ELSE b

(***************************************************************************)
(* Arbitrary-precision naturals: <<d1, d2, ...>> is d1 + B*d2 + B^2*d3 ... *)
(* with B = BigBase.                                                       *)
(***************************************************************************)
BigBase == 100 * 100

RECURSIVE BigNorm(_)
BigNorm(a) ==
  IF Len(a) > 0 /\ a[Len(a)] = 0 THEN BigNorm(SubSeq(a, 1, Len(a) - 1)) ELSE a

RECURSIVE BigFromInt(_)
BigFromInt(n) ==
  IF n = 0 THEN <<>> ELSE <<n % BigBase>> \o BigFromInt(n \div BigBase)

RECURSIVE BigToInt(_)
BigToInt(a) == IF Len(a) = 0 THEN 0 ELSE a[1] + BigBase * BigToInt(Tail(a))

RECURSIVE BigMulCarry(_, _, _)
BigMulCarry(a, k, carry) ==
  IF Len(a) = 0 THEN BigFromInt(carry)
  ELSE LET v == a[1] * k + carry
       IN  <<v % BigBase>> \o BigMulCarry(Tail(a), k, v \div BigBase)

\* a * k for a machine integer 0 <= k <= 10^5
BigMulSmall(a, k) == BigNorm(BigMulCarry(a, k, 0))

RECURSIVE BigDivRem(_, _, _, _)
BigDivRem(a, k, i, rem) ==
  IF i = 0 THEN <<>>
  ELSE LET v == rem * BigBase + a[i]
       IN  BigDivRem(a, k, i - 1, v % k) \o <<v \div k>>

\* floor(a / k) for a machine integer 0 < k <= 10^5
BigDivSmall(a, k) == BigNorm(BigDivRem(a, k, Len(a), 0))

\* floor(a / 100^n)
BigShift(a, n) ==
  LET d == n \div 2
      b == IF d >= Len(a) THEN <<>> ELSE SubSeq(a, d + 1, Len(a))
  IN  IF n % 2 = 1 THEN BigDivSmall(b, 100) ELSE b

RECURSIVE BigLessFrom(_, _, _)
BigLessFrom(a, b, i) ==
  IF i = 0 THEN FALSE
  ELSE IF a[i] # b[i] THEN a[i] < b[i]
  ELSE BigLessFrom(a, b, i - 1)

BigLess(a, b) ==
  IF Len(a) # Len(b) THEN Len(a) < Len(b) ELSE BigLessFrom(a, b, Len(a))

BigLeq(a, b) == ~BigLess(b, a)
BigMax(a, b) == IF BigLess(a, b) THEN b ELSE a

\* <<first, first*k, ..., first*k^n>>
RECURSIVE BigPowList(_, _, _)
BigPowList(acc, k, n) ==
  IF Len(acc) > n THEN acc
  ELSE BigPowList(Append(acc, BigMulSmall(acc[Len(acc)], k)), k, n)

\* the powers k^0 .. k^(10*rows - 1), built ten at a time
RECURSIVE BigPowRows(_, _, _)
BigPowRows(first, k, rows) ==
  IF rows = 0 THEN <<>>
  ELSE LET row == BigPowList(<<first>>, k, 9)
       IN  row \o BigPowRows(BigMulSmall(row[10], k), k, rows - 1)

(***************************************************************************)
(* Realm ladder                                                            *)
(***************************************************************************)
RealmCount == 11
StageCount == 10
Realms == 0 .. (RealmCount - 1)
Stages == 1 .. StageCount
ST_INDEX == 5
VR_INDEX == 6
LAST_REALM == RealmCount - 1

(***************************************************************************)
(* Fixed-point Math.exp(-rate * x) for integer x >= 0: the E4 value of     *)
(* exp(-rate) raised to the power x, rounded down at each step.            *)
(***************************************************************************)
E4 == 100 * 100

RECURSIVE ExpPow(_, _)
ExpPow(stepE4, x) ==
  IF x = 0 THEN E4 ELSE (ExpPow(stepE4, x - 1) * stepE4) \div E4

EXP_NEG_003 == 9704
EXP_NEG_004 == 9608

\* karmaStageMult(karma) = 1 + 0.6 * (1 - e^(-0.03 * karma)), in E4
karmaStageMult(karma) == E4 + (6 * (E4 - ExpPow(EXP_NEG_003, karma))) \div 10

\* karmaLifeMult(karma) = 1 + 1.5 * (1 - e^(-0.03 * karma)), in E4
karmaLifeMult(karma) == E4 + (15 * (E4 - ExpPow(EXP_NEG_003, karma))) \div 10

\* karmaQiMult(karma) = 1 + 1.2 * (1 - e^(-0.04 * karma)), in E4
karmaQiMult(karma) == E4 + (12 * (E4 - ExpPow(EXP_NEG_004, karma))) \div 10

(***************************************************************************)
(* BalanceConfig, stageRequirement section.  A raw field is Num(x), a      *)
(* finite number x in hundredths, or NaN (missing, not a number, or not    *)
(* finite).                                                                *)
(***************************************************************************)
Num(x) == <<"number", x>>
NaN == <<"NaN", 0>>
IsNum(v) == v[1] = "number"

DEFAULT_REALM_BASE == 10000
DEFAULT_REALM_BASE_SCALE == 1500
DEFAULT_STAGE_SCALE == 145

validateStageRequirement(sr) ==
  [ realmBase      |-> IF ~IsNum(sr.realmBase) \/ sr.realmBase[2] <= 0
                       THEN DEFAULT_REALM_BASE ELSE sr.realmBase[2],
    realmBaseScale |-> IF ~IsNum(sr.realmBaseScale) \/ sr.realmBaseScale[2] <= 0
                       THEN DEFAULT_REALM_BASE_SCALE ELSE sr.realmBaseScale[2],
    stageScale     |-> IF ~IsNum(sr.stageScale) \/ sr.stageScale[2] <= 0
                       THEN DEFAULT_STAGE_SCALE ELSE sr.stageScale[2] ]

(***************************************************************************)
(* StageCostModel                                                          *)
(***************************************************************************)
CROSS_REALM_JUMP == 125

\* the stage scales (hundredths) whose powers are tabulated, and the largest
\* exponent, 9 * realmIndex + stage - 1 at the top of the ladder
PowScales == {101, 120, 142, 145, 200}
MaxPow == 9 * (RealmCount - 1) + StageCount - 1
PowTable == [h \in PowScales |-> BigPowRows(<<1>>, h, (MaxPow \div 10) + 1)]

RECURSIVE BigMulPow(_, _, _)
BigMulPow(a, k, n) == IF n = 0 THEN a ELSE BigMulPow(BigMulSmall(a, k), k, n - 1)

\* stageScale^n as a natural scaled by 100^n
ScalePow(h, n) ==
  IF h \in PowScales THEN PowTable[h][n + 1] ELSE BigMulPow(<<1>>, h, n)

\* Math.max(realmBaseScale, Math.pow(stageScale, 9)) picks realmBaseScale
UsesConfiguredRealmScale(sr) ==
  BigLeq(ScalePow(sr.stageScale, 9),
         [i \in 1 .. 4 |-> 0] \o BigFromInt(sr.realmBaseScale))

baseRequirementFor(sr, realmIndex, stage) ==
  IF realmIndex = 0 THEN BigFromInt(stage * 10)
  ELSE IF UsesConfiguredRealmScale(sr)
  THEN BigShift(
         BigMulSmall(
           BigMulPow(ScalePow(sr.stageScale, stage - 1), sr.realmBaseScale, realmIndex),
           sr.realmBase),
         realmIndex + stage)
  ELSE BigShift(
         BigMulSmall(ScalePow(sr.stageScale, 9 * realmIndex + stage - 1), sr.realmBase),
         9 * realmIndex + stage)

\* Math.floor(x * karmaStageBonus()) with karmaStageBonus = 1 / karmaStageMult
ApplyKarmaReduction(x, karma) == BigDivSmall(BigMulSmall(x, E4), karmaStageMult(karma))

stageRequirement(sr, karma, realmIndex, stage) ==
  LET req == ApplyKarmaReduction(baseRequirementFor(sr, realmIndex, stage), karma)
  IN  IF realmIndex > 0 /\ stage = 1
      THEN LET prevStage10 ==
                 ApplyKarmaReduction(baseRequirementFor(sr, realmIndex - 1, 10), karma)
               minRequired == BigShift(BigMulSmall(prevStage10, CROSS_REALM_JUMP), 1)
           IN  BigMax(req, minRequired)
      ELSE req

(***************************************************************************)
(* State                                                                   *)
(***************************************************************************)
VARIABLES
  BAL,              \* the balance configuration in force (let BAL, loadBalance)
  S,                \* the game state (let S)
  isHandlingDeath,  \* the death handler's debounce flag
  MM,               \* ModalManager: _queue, _isActive, _currentOverlay, _previousTimeSpeed
  timers,           \* pending setTimeout callbacks
  hidden,           \* document.hidden
  probe             \* inputs and results of the pure-function probes

gameVars == <<S, isHandlingDeath, MM, timers, hidden>>
vars == <<BAL, S, isHandlingDeath, MM, timers, hidden, probe>>

(***************************************************************************)
(* The balance configuration of the state machine.  balance.json is an     *)
(* input of the program; this one passes validateBalanceConfig unchanged   *)
(* and keeps Qi amounts small.  Qi in cQi, rates in cQi per second,        *)
(* lifespans in years, yearsPerSecond in thousandths.                      *)
(***************************************************************************)
Null == 0 - 1

SkillIds == {"breath_control", "celestial_resonance"}

SimBalance ==
  [ skills |->
      [ breath_control |->
          [oneTime |-> FALSE, base |-> 480, cost |-> 100, costScale |-> 200,
           ranksPerRealm |-> 2, value |-> 0],
        celestial_resonance |->
          [oneTime |-> TRUE, base |-> 0, cost |-> 200, costScale |-> 0,
           ranksPerRealm |-> 0, value |-> 50] ],
    stageRequirement |-> [realmBase |-> 16000, realmBaseScale |-> 200, stageScale |-> 101],
    progression |->
      [ qpcBaseStart |-> 20000, qpsBaseStart |-> 20,
        realmAdvanceReward |-> [qpcBaseAdd |-> 0, qpsBaseAdd |-> 0] ],
    reincarnation |->
      [lifetimeQiDivisor |-> 10000, realmKarmaFactor |-> 1, minKarma |-> 3, deathPenalty |-> 50],
    offline |-> [capHours |-> 16],
    lifespan |->
      [ realmMaxLifespan |-> <<50, 50, 50, 50, 50, 50, 50, 50, 50, 50, Null>>,
        yearsPerSecond |-> 100 ] ]

(***************************************************************************)
(* Karma and skill scaling                                                 *)
(***************************************************************************)
EXP_NEG_022 == 8025

\* skillRealmScale(realmIndex) = min(3, 1 + 2 * (1 - e^(-0.22 * realmIndex))), in E4
skillRealmScale(realmIndex) ==
  Min(3 * E4, E4 + 2 * (E4 - ExpPow(EXP_NEG_022, realmIndex)))

\* effectiveSkillBase(id) = base * skillRealmScale(S.realmIndex), in E4
effectiveSkillBase(s, id) == (BAL.skills[id].base * skillRealmScale(s.realmIndex)) \div 100

\* cyclePowerMult: BAL.cycleDefinitions is absent from the configuration
cyclePowerMult(realmIndex) == E4

(***************************************************************************)
(* Skill ledger: S.skills maps the ids bought in this life to              *)
(* [purchasedOneTime, total, perRealm]; perRealm maps a realm to its ranks *)
(***************************************************************************)
NoRanks == [r \in Realms |-> 0]

currentRealmRanks(s, id) ==
  IF id \notin DOMAIN s.skills \/ s.skills[id].purchasedOneTime THEN 0
  ELSE s.skills[id].perRealm[s.realmIndex]

isTechniquePurchased(s, id) == id \in DOMAIN s.skills /\ s.skills[id].purchasedOneTime

\* addRealmRank taken for a single-rank purchase: n is ignored
addSingleRealmRank(s, id, n) ==
  LET old == IF id \in DOMAIN s.skills THEN s.skills[id]
             ELSE [purchasedOneTime |-> FALSE, total |-> 0, perRealm |-> NoRanks]
      new == [purchasedOneTime |-> old.purchasedOneTime,
              total |-> old.total + 1,
              perRealm |-> [old.perRealm EXCEPT ![s.realmIndex] = currentRealmRanks(s, id) + 1]]
  IN  [i \in (DOMAIN s.skills) \cup {id} |-> IF i = id THEN new ELSE s.skills[i]]

\* S.skills after addRealmRank(id, n)
addRealmRank(s, id, n) ==
  LET old == IF id \in DOMAIN s.skills THEN s.skills[id]
             ELSE [purchasedOneTime |-> FALSE, total |-> 0, perRealm |-> NoRanks]
      new == [purchasedOneTime |-> old.purchasedOneTime,
              total |-> old.total + n,
              perRealm |-> [old.perRealm EXCEPT ![s.realmIndex] = currentRealmRanks(s, id) + n]]
  IN  [i \in (DOMAIN s.skills) \cup {id} |-> IF i = id THEN new ELSE s.skills[i]]

\* S.skills after purchaseTechnique(id)
purchaseTechnique(s, id) ==
  [i \in (DOMAIN s.skills) \cup {id} |->
     IF i = id THEN [purchasedOneTime |-> TRUE, total |-> 1, perRealm |-> NoRanks]
     ELSE s.skills[i]]

(***************************************************************************)
(* Resource engine                                                         *)
(***************************************************************************)
QPS_FLAT_PER_RANK == 15
TECHNIQUE_VALUE_DEFAULT == 12

\* Qi per click, in cQi.  The configuration has none of meridian_flow,
\* dantian_temps, void_convergence, so add = qpcBase and mult = 1.
totalQPC(s) == (s.qpcBase * karmaQiMult(s.reinc.karma)) \div E4

\* totalQPS() without the lock of the tutorial realm
totalQPSUnlocked(s) ==
  LET ranksB == currentRealmRanks(s, "breath_control")
      baseline == (s.qpsBase * QPS_FLAT_PER_RANK) \div 100
      add == s.qpsBase +
             (IF ranksB > 0
              THEN (ranksB * baseline * effectiveSkillBase(s, "breath_control")) \div E4
              ELSE 0)
      value == IF BAL.skills["celestial_resonance"].value # 0
               THEN BAL.skills["celestial_resonance"].value
               ELSE TECHNIQUE_VALUE_DEFAULT
      mult == IF isTechniquePurchased(s, "celestial_resonance") THEN 100 + value ELSE 100
  IN  (((add * mult) \div 100) * karmaQiMult(s.reinc.karma)) \div E4

\* Qi per second, in cQi per second
totalQPS(s) ==
  IF s.realmIndex = 0 THEN 0
  ELSE LET ranksB == currentRealmRanks(s, "breath_control")
           baseline == (s.qpsBase * QPS_FLAT_PER_RANK) \div 100
           add == s.qpsBase +
                  (IF ranksB > 0
                   THEN (ranksB * baseline * effectiveSkillBase(s, "breath_control")) \div E4
                   ELSE 0)
           value == IF BAL.skills["celestial_resonance"].value # 0
                    THEN BAL.skills["celestial_resonance"].value
                    ELSE TECHNIQUE_VALUE_DEFAULT
           mult == IF isTechniquePurchased(s, "celestial_resonance") THEN 100 + value ELSE 100
       IN  (((add * mult) \div 100) * karmaQiMult(s.reinc.karma)) \div E4

\* S.qi after safeAddQi(x); the 1e300 ceiling is beyond every amount the
\* bounded state machine reaches
safeAddQi(s, x) == IF x <= 0 THEN s.qi ELSE Max(0, s.qi + x)


(***************************************************************************)
(* Game state                                                              *)
(*                                                                         *)
(* Left out of S: timestamps (lastTick, lastSave, lastDeathAt,             *)
(* lastReincarnateAt), life.isCleanRun and the display-only fields.        *)
(* localStorage and achievementState are written but never read back by    *)
(* the operations below; the alerts that achievements raise are left out.  *)
(***************************************************************************)
ONE_X == 4
BASE_SPEEDS_ALWAYS_AVAILABLE == {0, 1, 2, 4}
LIFESPAN_FALLBACK == 100

NoSession == [active |-> FALSE, lastSpeed |-> 0]

\* BAL.lifespan.realmMaxLifespan[0] || 100, in cy
DefaultLifespan ==
  LET first == BAL.lifespan.realmMaxLifespan[1]
  IN  100 * (IF first # Null /\ first # 0 THEN first ELSE LIFESPAN_FALLBACK)

defaultState ==
  [ qi |-> 0,
    qpcBase |-> BAL.progression.qpcBaseStart,
    qpsBase |-> BAL.progression.qpsBaseStart,
    realmIndex |-> 0,
    stage |-> 1,
    skills |-> <<>>,
    reinc |-> [times |-> 0, karma |-> 0, lifetimeQi |-> 0],
    lifespan |-> [current |-> DefaultLifespan, max |-> DefaultLifespan],
    age |-> 0,
    isDead |-> FALSE,
    timeSpeed |-> [current |-> ONE_X, paused |-> FALSE],
    currentCycle |-> "mortal",
    flags |-> [unlockedBeyondSpirit |-> FALSE, hasUnlockedSpiritCycle |-> FALSE,
               hasCompletedMandatoryST10 |-> FALSE, canManualReincarnate |-> FALSE,
               lifespanHandled |-> FALSE],
    lifecycle |-> [isReincarnating |-> FALSE],
    stats |-> [deaths |-> 0],
    meta |-> [unlockedSpeeds |-> BASE_SPEEDS_ALWAYS_AVAILABLE],
    session |-> NoSession ]

(***************************************************************************)
(* Lifespan controller, pure part                                          *)
(***************************************************************************)
\* getMaxLifespan(realmIndex) in cy, Null for the immortal realm
\* getMaxLifespan() without the branch for a null configured lifespan
getMaxLifespanMortal(s, realmIndex) ==
  LET maxFromConfig == BAL.lifespan.realmMaxLifespan[realmIndex + 1]
      first == BAL.lifespan.realmMaxLifespan[1]
      baseLifespan == IF maxFromConfig # 0 /\ maxFromConfig # Null THEN maxFromConfig
                      ELSE IF first # Null /\ first # 0 THEN first
                      ELSE LIFESPAN_FALLBACK
  IN  100 * ((baseLifespan * karmaLifeMult(s.reinc.karma)) \div E4)

getMaxLifespan(s, realmIndex) ==
  LET maxFromConfig == BAL.lifespan.realmMaxLifespan[realmIndex + 1]
      first == BAL.lifespan.realmMaxLifespan[1]
      baseLifespan == IF maxFromConfig # 0 THEN maxFromConfig
                      ELSE IF first # Null /\ first # 0 THEN first
                      ELSE LIFESPAN_FALLBACK
  IN  IF maxFromConfig = Null THEN Null
      ELSE 100 * ((baseLifespan * karmaLifeMult(s.reinc.karma)) \div E4)

isImmortal(s) == getMaxLifespan(s, s.realmIndex) = Null

\* S after refreshLifespanForRealm()
refreshLifespanForRealm(s) ==
  LET max == getMaxLifespan(s, s.realmIndex)
  IN  IF max = Null
      THEN [s EXCEPT !.lifespan = [current |-> Null, max |-> Null], !.age = 0]
      ELSE IF s.lifespan.current = Null
      THEN [s EXCEPT !.lifespan = [current |-> max, max |-> max]]
      ELSE [s EXCEPT !.lifespan = [current |-> Min(s.lifespan.current, max), max |-> max]]

\* S after updateLifespanOnRealmAdvance()
updateLifespanOnRealmAdvance(s) ==
  LET newMax == getMaxLifespan(s, s.realmIndex)
  IN  [s EXCEPT !.lifespan = [current |-> newMax, max |-> newMax],
                !.age = 0,
                !.flags.lifespanHandled = FALSE]

(***************************************************************************)
(* Karma gain                                                              *)
(***************************************************************************)
\* Math.floor(Math.sqrt(lifetimeQi / divisor)), lifetimeQi in cQi
RECURSIVE FloorSqrtFrom(_, _, _)
FloorSqrtFrom(k, lifetimeQi, divisor) ==
  IF (k + 1) * (k + 1) * divisor * 100 <= lifetimeQi
  THEN FloorSqrtFrom(k + 1, lifetimeQi, divisor)
  ELSE k

computeKarmaGain(s) ==
  LET base == FloorSqrtFrom(0, s.reinc.lifetimeQi, BAL.reincarnation.lifetimeQiDivisor)
      realmBonus == s.realmIndex * BAL.reincarnation.realmKarmaFactor
      cycleMultiplier == IF s.currentCycle = "spirit" THEN 2 ELSE 1
  IN  Max(BAL.reincarnation.minKarma, (base + realmBonus) * cycleMultiplier)

computeVoluntaryKarma(s) == Max(BAL.reincarnation.minKarma, computeKarmaGain(s))

DEATH_PENALTY_DEFAULT == 50

\* the death award without its floor: the full award halved
computeDeathKarmaHalved(s) == computeKarmaGain(s) \div 2

computeDeathKarma(s) ==
  LET deathPenalty == IF BAL.reincarnation.deathPenalty # 0
                      THEN BAL.reincarnation.deathPenalty ELSE DEATH_PENALTY_DEFAULT
  IN  Max(BAL.reincarnation.minKarma, (computeKarmaGain(s) * deathPenalty) \div 100)

canReincarnate(s) ==
  /\ s.flags.hasCompletedMandatoryST10
  /\ (s.realmIndex > ST_INDEX \/ (s.realmIndex = ST_INDEX /\ s.stage >= 1))

(***************************************************************************)
(* ModalManager.  A world w is [S, MM, isHandlingDeath, timers]: the part *)
(* of the state that nested calls read and write.  A queued modal is      *)
(* [kind, gain]; gain is the karma captured by the death handler that      *)
(* awaits it.                                                              *)
(***************************************************************************)
NoModal == [kind |-> "none", gain |-> 0]
InfoModal == [kind |-> "info", gain |-> 0]
\* the alert that reports offline gains
OfflineModal == [kind |-> "offline", gain |-> 0]
ConfirmKinds == {"confirm_voluntary", "confirm_mandatory", "confirm_cycle"}

_displayNext(w) ==
  IF Len(w.MM.queue) = 0
  THEN [w EXCEPT !.MM.isActive = FALSE]
  ELSE LET data == Head(w.MM.queue)
           pausing == ~w.S.timeSpeed.paused
       IN  [w EXCEPT
              !.MM.isActive = TRUE,
              !.MM.queue = Tail(@),
              !.MM.currentOverlay = data,
              !.MM.previousTimeSpeed =
                 IF pausing
                 THEN (IF w.S.timeSpeed.current # 0 THEN w.S.timeSpeed.current ELSE ONE_X)
                 ELSE @,
              !.S.timeSpeed.paused = TRUE]

_enqueue(w, data) ==
  LET pushed == [w EXCEPT !.MM.queue = Append(@, data)]
  IN  IF ~w.MM.isActive THEN _displayNext(pushed) ELSE pushed

showModal(w) == _enqueue(w, InfoModal)

_cleanup(w) ==
  IF w.MM.currentOverlay = NoModal THEN w
  ELSE IF Len(w.MM.queue) = 0 /\ w.MM.previousTimeSpeed # Null
  THEN [w EXCEPT !.S.timeSpeed = [current |-> w.MM.previousTimeSpeed, paused |-> FALSE],
                 !.MM.previousTimeSpeed = Null,
                 !.MM.currentOverlay = NoModal]
  ELSE [w EXCEPT !.MM.currentOverlay = NoModal]

(***************************************************************************)
(* Death handling                                                          *)
(***************************************************************************)
\* handleLifespanEnd() up to its await of the death alert
handleLifespanEnd(w) ==
  IF w.isHandlingDeath \/ w.S.lifecycle.isReincarnating \/ w.S.isDead THEN w
  ELSE LET marked == [w EXCEPT !.isHandlingDeath = TRUE,
                               !.S.isDead = TRUE,
                               !.S.lifecycle.isReincarnating = TRUE,
                               !.S.timeSpeed = [current |-> 0, paused |-> TRUE]]
       IN  _enqueue(marked, [kind |-> "death", gain |-> computeDeathKarma(marked.S)])

\* performDeathReincarnation counting the death as a reincarnation too
performDeathReincarnationCountingLife(s, karmaGain) ==
  LET reborn == [defaultState EXCEPT
                   !.flags = [s.flags EXCEPT !.lifespanHandled = FALSE],
                   !.stats = [deaths |-> s.stats.deaths + 1],
                   !.reinc = [times |-> s.reinc.times + 1,
                              karma |-> s.reinc.karma + karmaGain,
                              lifetimeQi |-> 0],
                   !.meta = s.meta]
      newMaxLifespan == getMaxLifespan(reborn, 0)
  IN  [reborn EXCEPT !.age = 0,
                     !.lifespan = [current |-> newMaxLifespan, max |-> newMaxLifespan],
                     !.isDead = FALSE,
                     !.timeSpeed = [current |-> ONE_X, paused |-> FALSE],
                     !.lifecycle.isReincarnating = FALSE]

\* S after performDeathReincarnation(karmaGain)
performDeathReincarnation(s, karmaGain) ==
  LET reborn == [defaultState EXCEPT
                   !.flags = [s.flags EXCEPT !.lifespanHandled = FALSE],
                   !.stats = [deaths |-> s.stats.deaths + 1],
                   !.reinc = [times |-> s.reinc.times,
                              karma |-> s.reinc.karma + karmaGain,
                              lifetimeQi |-> 0],
                   !.meta = s.meta]
      newMaxLifespan == getMaxLifespan(reborn, 0)
  IN  [reborn EXCEPT !.age = 0,
                     !.lifespan = [current |-> newMaxLifespan, max |-> newMaxLifespan],
                     !.isDead = FALSE,
                     !.timeSpeed = [current |-> ONE_X, paused |-> FALSE],
                     !.lifecycle.isReincarnating = FALSE]

\* the continuation without its finally block: isHandlingDeath stays set
resumeLifespanEndHolding(w, karmaGain) ==
  [w EXCEPT !.S = performDeathReincarnation(w.S, karmaGain)]

\* the continuation of handleLifespanEnd once the death alert is dismissed
resumeLifespanEnd(w, karmaGain) ==
  [w EXCEPT !.S = performDeathReincarnation(w.S, karmaGain),
            !.isHandlingDeath = FALSE]

\* doReincarnate restoring the whole reinc record, lifetimeQi included
doReincarnateKeepingLifetimeQi(w, mode) ==
  LET s == w.S
      gain == IF mode = "death" THEN computeDeathKarma(s) ELSE computeVoluntaryKarma(s)
      restored == [defaultState EXCEPT
                     !.reinc = [times |-> s.reinc.times + 1,
                                karma |-> s.reinc.karma + gain,
                                lifetimeQi |-> s.reinc.lifetimeQi],
                     !.flags = [s.flags EXCEPT !.lifespanHandled = FALSE],
                     !.meta = s.meta]
      flagged == IF mode = "mandatory" /\ s.realmIndex = ST_INDEX /\ s.stage = 10
                 THEN [restored EXCEPT !.flags.hasCompletedMandatoryST10 = TRUE,
                                       !.flags.hasUnlockedSpiritCycle = TRUE,
                                       !.flags.canManualReincarnate = TRUE,
                                       !.flags.unlockedBeyondSpirit = TRUE]
                 ELSE restored
  IN  showModal([w EXCEPT !.S = refreshLifespanForRealm(flagged)])

(***************************************************************************)
(* Reincarnation: doReincarnate({mode})                                    *)
(***************************************************************************)
doReincarnate(w, mode) ==
  LET s == w.S
      gain == IF mode = "death" THEN computeDeathKarma(s) ELSE computeVoluntaryKarma(s)
      wasAtST10 == s.realmIndex = ST_INDEX /\ s.stage = 10
      restored == [defaultState EXCEPT
                     !.reinc = [times |-> s.reinc.times + 1,
                                karma |-> s.reinc.karma + gain,
                                lifetimeQi |-> 0],
                     !.flags = s.flags,
                     !.meta = s.meta]
      flagged == IF mode = "mandatory" /\ wasAtST10
                 THEN [restored EXCEPT !.flags.hasCompletedMandatoryST10 = TRUE,
                                       !.flags.hasUnlockedSpiritCycle = TRUE,
                                       !.flags.canManualReincarnate = TRUE,
                                       !.flags.unlockedBeyondSpirit = TRUE]
                 ELSE restored
      counted == IF mode = "death"
                 THEN [flagged EXCEPT !.stats.deaths = @ + 1]
                 ELSE flagged
      fresh == [counted EXCEPT !.age = 0, !.isDead = FALSE,
                               !.flags.lifespanHandled = FALSE,
                               !.realmIndex = 0, !.stage = 1,
                               !.currentCycle = "mortal"]
      live == [refreshLifespanForRealm(fresh) EXCEPT
                 !.lifecycle.isReincarnating = FALSE,
                 !.timeSpeed.paused = FALSE]
  IN  showModal([w EXCEPT !.S = live])

(***************************************************************************)
(* Time: tick, aging, the lifespan gate, clicks                            *)
(***************************************************************************)
\* years passed, in cy, for dt = rawDt * speed seconds of game time;
\* BAL.lifespan.yearsPerSecond is held in thousandths, speed in quarters
yearsFor(rawDt, speed) == (rawDt * speed * BAL.lifespan.yearsPerSecond) \div 40

\* tickLifespan() without the clamp of the new age to the max lifespan
tickLifespanUnclamped(w, rawDt, speed) ==
  LET s == w.S
      maxLifespan == getMaxLifespan(s, s.realmIndex)
      agingRate == yearsFor(rawDt, speed)
  IN  IF s.timeSpeed.paused \/ s.isDead THEN w
      ELSE IF maxLifespan = Null THEN w
      ELSE IF s.lifecycle.isReincarnating THEN w
      ELSE IF rawDt * speed <= 0 THEN w
      ELSE LET age == Max(0, s.age + agingRate)
               aged == [s EXCEPT !.age = age,
                                 !.lifespan.current =
                                    IF s.lifespan.max # Null
                                    THEN Max(0, s.lifespan.max - age) ELSE @]
           IN  IF age >= maxLifespan /\ ~s.flags.lifespanHandled
               THEN handleLifespanEnd([w EXCEPT !.S = [aged EXCEPT !.flags.lifespanHandled = TRUE]])
               ELSE [w EXCEPT !.S = aged]

tickLifespan(w, rawDt, speed) ==
  LET s == w.S
      maxLifespan == getMaxLifespan(s, s.realmIndex)
      agingRate == yearsFor(rawDt, speed)
  IN  IF s.timeSpeed.paused \/ s.isDead THEN w
      ELSE IF maxLifespan = Null THEN w
      ELSE IF s.lifecycle.isReincarnating THEN w
      ELSE IF rawDt * speed <= 0 THEN w
      ELSE LET age == Max(0, Min(s.age + agingRate, maxLifespan))
               aged == [s EXCEPT !.age = age,
                                 !.lifespan.current =
                                    IF s.lifespan.max # Null
                                    THEN Max(0, s.lifespan.max - age) ELSE @]
           IN  IF age >= maxLifespan /\ ~s.flags.lifespanHandled
               THEN handleLifespanEnd([w EXCEPT !.S = [aged EXCEPT !.flags.lifespanHandled = TRUE]])
               ELSE [w EXCEPT !.S = aged]

checkLifespanGate(w) ==
  LET s == w.S
      maxLife == getMaxLifespan(s, s.realmIndex)
  IN  IF maxLife = Null THEN w
      ELSE IF s.flags.lifespanHandled \/ s.lifecycle.isReincarnating THEN w
      ELSE IF s.age >= maxLife
      THEN handleLifespanEnd([w EXCEPT !.S.flags.lifespanHandled = TRUE])
      ELSE w

\* tick with the Qi gain scaled by the time speed
tickScalingQiBySpeed(w, rawDt, speed) ==
  IF speed = 0 THEN w
  ELSE IF w.S.lifecycle.isReincarnating THEN w
  ELSE IF w.isHandlingDeath THEN w
  ELSE LET gain == (totalQPS(w.S) * rawDt * speed) \div 4
           gained == [w EXCEPT !.S.qi = safeAddQi(w.S, gain),
                               !.S.reinc.lifetimeQi = @ + gain]
       IN  checkLifespanGate(tickLifespan(gained, rawDt, speed))

tick(w, rawDt, speed) ==
  IF speed = 0 THEN w
  ELSE IF w.S.lifecycle.isReincarnating THEN w
  ELSE IF w.isHandlingDeath THEN w
  ELSE LET gain == totalQPS(w.S) * rawDt
           gained == [w EXCEPT !.S.qi = safeAddQi(w.S, gain),
                               !.S.reinc.lifetimeQi = @ + gain]
       IN  checkLifespanGate(tickLifespan(gained, rawDt, speed))

getTimeSpeed(s) == IF s.timeSpeed.paused THEN 0 ELSE s.timeSpeed.current

\* onClick without the reincarnation guard
onClickUnguarded(s) ==
  IF s.timeSpeed.paused \/ s.timeSpeed.current = 0 THEN s
  ELSE [s EXCEPT !.qi = safeAddQi(s, totalQPC(s)), !.reinc.lifetimeQi = @ + totalQPC(s)]

\* S after onClick()
onClick(s) ==
  IF getTimeSpeed(s) = 0 THEN s
  ELSE IF s.lifecycle.isReincarnating THEN s
  ELSE LET gain == totalQPC(s)
       IN  [s EXCEPT !.qi = safeAddQi(s, gain), !.reinc.lifetimeQi = @ + gain]

\* the speed loop() hands to tick: Math.max(0, S.timeSpeed.current || 1)
loopSpeed(s) == IF s.timeSpeed.current # 0 THEN Max(0, s.timeSpeed.current) ELSE ONE_X

(***************************************************************************)
(* Time speeds, in quarters                                                *)
(***************************************************************************)
\* SPEEDS_CONFIG: the speeds whose unlockAt realm is at most realmIndex
SpeedsUnlockedAt(realmIndex) ==
  {0, 1, 2, 4}
    \cup (IF realmIndex >= 2 THEN {8} ELSE {})
    \cup (IF realmIndex >= 4 THEN {16} ELSE {})
    \cup (IF realmIndex >= 6 THEN {24} ELSE {})
    \cup (IF realmIndex >= 8 THEN {32} ELSE {})
    \cup (IF realmIndex >= 10 THEN {40} ELSE {})

getAvailableSpeeds(s) == s.meta.unlockedSpeeds \cup BASE_SPEEDS_ALWAYS_AVAILABLE

\* S after checkAndUnlockSpeeds()
checkAndUnlockSpeeds(s) ==
  [s EXCEPT !.meta.unlockedSpeeds =
     @ \cup SpeedsUnlockedAt(s.realmIndex) \cup BASE_SPEEDS_ALWAYS_AVAILABLE]

\* S after setTimeSpeed(speed)
setTimeSpeed(s, speed) ==
  LET chosen == IF speed \in getAvailableSpeeds(s) THEN speed ELSE ONE_X
  IN  IF chosen = 0
      THEN [s EXCEPT !.timeSpeed = [current |-> 0, paused |-> TRUE]]
      ELSE [s EXCEPT !.timeSpeed = [current |-> chosen, paused |-> FALSE]]

(***************************************************************************)
(* Skill costs.  sk.cost is in Qi, sk.costScale in hundredths.  The code   *)
(* works on logarithms of floating-point numbers; here the geometric sum   *)
(* cost * r^current * (r^qty - 1) / (r - 1) is computed exactly as the     *)
(* fraction CostNumerator / CostDenominator.                               *)
(***************************************************************************)
RECURSIVE IntPow(_, _)
IntPow(b, n) == IF n = 0 THEN 1 ELSE b * IntPow(b, n - 1)

RECURSIVE CostNumeratorFrom(_, _, _, _)
CostNumeratorFrom(sk, level, last, top) ==
  IF level > last THEN 0
  ELSE sk.cost * IntPow(sk.costScale, level) * IntPow(100, top - level)
       + CostNumeratorFrom(sk, level + 1, last, top)

\* exp(lnTotalCost(sk, currentLevel, qty)) = CostNumerator / CostDenominator
CostNumerator(sk, currentLevel, qty) ==
  CostNumeratorFrom(sk, currentLevel, currentLevel + qty - 1, currentLevel + qty - 1)
CostDenominator(currentLevel, qty) == IntPow(100, currentLevel + qty - 1)

Infinity == 0 - 2

\* totalSkillCost(skillId, qty) in Qi, Infinity at the rank cap
totalSkillCost(s, id, qty) ==
  LET sk == BAL.skills[id]
      currentRanks == currentRealmRanks(s, id)
      actualQty == Min(qty, sk.ranksPerRealm - currentRanks)
  IN  IF qty <= 0 THEN 0
      ELSE IF sk.oneTime THEN sk.cost
      ELSE IF actualQty <= 0 THEN Infinity
      ELSE Max(0, CostNumerator(sk, currentRanks, actualQty)
                    \div CostDenominator(currentRanks, actualQty))

\* the binary search of maxAffordableQty; budget in cQi
RECURSIVE AffordableSearch(_, _, _, _, _)
AffordableSearch(sk, currentRanks, budgetQi, lo, hi) ==
  IF lo >= hi THEN lo
  ELSE LET mid == (lo + hi + 1) \div 2
       IN  IF 100 * CostNumerator(sk, currentRanks, mid)
                <= Max(100, budgetQi) * CostDenominator(currentRanks, mid)
           THEN AffordableSearch(sk, currentRanks, budgetQi, mid, hi)
           ELSE AffordableSearch(sk, currentRanks, budgetQi, lo, mid - 1)

\* maxAffordableQty() without the per-realm cap on the ranks
maxAffordableQtyUncapped(s, id, maxQty, budgetQi) ==
  LET sk == BAL.skills[id]
      currentRanks == currentRealmRanks(s, id)
  IN  IF budgetQi <= 0 \/ maxQty <= 0 THEN 0
      ELSE IF sk.oneTime THEN (IF budgetQi >= 100 * sk.cost THEN 1 ELSE 0)
      ELSE AffordableSearch(sk, currentRanks, budgetQi, 0, maxQty)

maxAffordableQty(s, id, maxQty, budgetQi) ==
  LET sk == BAL.skills[id]
      currentRanks == currentRealmRanks(s, id)
      maxPossible == Min(maxQty, sk.ranksPerRealm - currentRanks)
  IN  IF budgetQi <= 0 \/ maxQty <= 0 THEN 0
      ELSE IF sk.oneTime THEN (IF budgetQi >= 100 * sk.cost THEN 1 ELSE 0)
      ELSE IF maxPossible <= 0 THEN 0
      ELSE AffordableSearch(sk, currentRanks, budgetQi, 0, maxPossible)

\* buySkill(skillId, requestedQty): the boolean it returns and S after it
buySkill(s, id, requestedQty) ==
  LET sk == BAL.skills[id]
      failed == [ok |-> FALSE, S |-> s]
      qty == Max(1, requestedQty)
      budget == s.qi
      affordable == maxAffordableQty(s, id, qty, budget)
      cost == totalSkillCost(s, id, affordable)
  IN  IF sk.oneTime
      THEN IF isTechniquePurchased(s, id) THEN failed
           ELSE IF s.qi < 100 * sk.cost THEN failed
           ELSE [ok |-> TRUE,
                 S |-> [s EXCEPT !.qi = @ - 100 * sk.cost,
                                 !.skills = purchaseTechnique(s, id)]]
      ELSE IF affordable <= 0 THEN failed
      ELSE IF cost = Infinity THEN failed
      ELSE IF 100 * cost > budget THEN failed
      ELSE [ok |-> TRUE,
            S |-> [s EXCEPT !.qi = @ - 100 * cost,
                            !.skills = addRealmRank(s, id, affordable)]]

(***************************************************************************)
(* Breakthrough and the reincarnation prompts                              *)
(***************************************************************************)
\* stageRequirement(S.realmIndex, S.stage) in cQi
currentRequirement(s) ==
  100 * BigToInt(stageRequirement(BAL.stageRequirement, s.reinc.karma, s.realmIndex, s.stage))

canBreakthrough(s) == s.qi >= currentRequirement(s)

showConfirm(w, kind) == _enqueue(w, [kind |-> kind, gain |-> 0])

showSpiritTransformationGate(w) == showConfirm(w, "confirm_mandatory")

\* currentCycle never leaves "mortal" without BAL.cycleDefinitions, so
\* triggerCycleTransition always opens the mortal-to-spirit prompt
triggerCycleTransition(w) == showConfirm(w, "confirm_cycle")

isAtCycleEnd(s) ==
  s.currentCycle = "mortal" /\ s.realmIndex = ST_INDEX /\ s.stage = 10
    /\ ~s.flags.unlockedBeyondSpirit

\* doBreakthrough() without the Spirit Transformation gate
doBreakthroughUngated(w) ==
  LET s == w.S
      req == currentRequirement(s)
      paid == [w EXCEPT !.S.qi = @ - req]
  IN  IF s.qi < req THEN w
      ELSE IF s.stage < 10 THEN [paid EXCEPT !.S.stage = @ + 1]
      ELSE IF s.realmIndex < LAST_REALM
      THEN LET moved == [paid.S EXCEPT
                           !.realmIndex = @ + 1,
                           !.stage = 1,
                           !.qpcBase = @ + BAL.progression.realmAdvanceReward.qpcBaseAdd,
                           !.qpsBase = @ + BAL.progression.realmAdvanceReward.qpsBaseAdd]
           IN  [paid EXCEPT !.S = checkAndUnlockSpeeds(updateLifespanOnRealmAdvance(moved))]
      ELSE triggerCycleTransition(paid)

doBreakthrough(w) ==
  LET s == w.S
      req == currentRequirement(s)
      paid == [w EXCEPT !.S.qi = @ - req]
  IN  IF s.qi < req THEN w
      ELSE IF s.stage < 10 THEN [paid EXCEPT !.S.stage = @ + 1]
      ELSE IF s.realmIndex = ST_INDEX /\ ~s.flags.unlockedBeyondSpirit
      THEN showSpiritTransformationGate(paid)
      ELSE IF isAtCycleEnd(paid.S) THEN triggerCycleTransition(paid)
      ELSE IF s.realmIndex < LAST_REALM
      THEN LET moved == [paid.S EXCEPT
                           !.realmIndex = @ + 1,
                           !.stage = 1,
                           !.qpcBase = @ + BAL.progression.realmAdvanceReward.qpcBaseAdd,
                           !.qpsBase = @ + BAL.progression.realmAdvanceReward.qpsBaseAdd]
               advanced == checkAndUnlockSpeeds(updateLifespanOnRealmAdvance(moved))
           IN  [paid EXCEPT
                  !.S = advanced,
                  !.timers.spiritNotice =
                     IF s.realmIndex = ST_INDEX /\ advanced.flags.unlockedBeyondSpirit
                          /\ advanced.realmIndex = VR_INDEX
                     THEN TRUE ELSE @]
      ELSE triggerCycleTransition(paid)

tryManualReincarnate(w) ==
  IF ~canReincarnate(w.S) THEN showModal(w)
  ELSE showConfirm(w, "confirm_voluntary")

\* the callback a dismissed modal runs
modalCallback(w, data, confirmed) ==
  IF data.kind = "death" THEN resumeLifespanEnd(w, data.gain)
  ELSE IF data.kind = "confirm_mandatory" /\ confirmed THEN doReincarnate(w, "mandatory")
  ELSE IF data.kind \in {"confirm_voluntary", "confirm_cycle"} /\ confirmed
  THEN doReincarnate(w, "voluntary")
  ELSE w

\* handleClose(confirmed) of the displayed modal
handleClose(w, confirmed) ==
  [modalCallback(_cleanup(w), w.MM.currentOverlay, confirmed) EXCEPT
     !.timers.displayNext = TRUE]

(***************************************************************************)
(* Session snapshot and offline catch-up.  The snapshot's timestamp is     *)
(* left out; the seconds elapsed since it are an input of the catch-up.    *)
(***************************************************************************)
\* S after saveSessionSnapshot()
saveSessionSnapshot(s) ==
  [s EXCEPT !.session = [active |-> TRUE, lastSpeed |-> s.timeSpeed.current]]

\* applyOfflineProgressOnResume with the Qi gain scaled by the recorded speed
applyOfflineProgressScalingQi(w, elapsedSec) ==
  LET s == w.S
      cleared == [w EXCEPT !.S.session = NoSession]
      lastSpeed == s.session.lastSpeed
      cappedSec == Min(elapsedSec, BAL.offline.capHours * 3600)
      qiGains == (totalQPS(s) * cappedSec * lastSpeed) \div 4
      yearsPassed == yearsFor(cappedSec, lastSpeed)
      gained == IF qiGains > 0
                THEN [s EXCEPT !.qi = safeAddQi(s, qiGains),
                               !.reinc.lifetimeQi = @ + qiGains]
                ELSE s
      ages == ~isImmortal(gained) /\ gained.lifespan.max # Null
      newAge == IF ages THEN Max(0, Min(gained.age + yearsPassed, gained.lifespan.max))
                ELSE gained.age
      aged == [gained EXCEPT !.age = newAge,
                             !.lifespan.current =
                                IF ages THEN Max(0, gained.lifespan.max - newAge) ELSE @,
                             !.session = NoSession]
      resumed == [w EXCEPT !.S = aged]
  IN  IF ~s.session.active \/ lastSpeed <= 0 \/ elapsedSec < 1 THEN cleared
      ELSE IF ages /\ newAge >= gained.lifespan.max THEN checkLifespanGate(resumed)
      ELSE IF qiGains > 0 THEN _enqueue(resumed, OfflineModal)
      ELSE resumed

\* applyOfflineProgressOnResume leaving the snapshot in place once it has
\* been credited
applyOfflineProgressKeepingSnapshot(w, elapsedSec) ==
  LET s == w.S
      cleared == [w EXCEPT !.S.session = NoSession]
      lastSpeed == s.session.lastSpeed
      cappedSec == Min(elapsedSec, BAL.offline.capHours * 3600)
      qiGains == totalQPS(s) * cappedSec
      yearsPassed == yearsFor(cappedSec, lastSpeed)
      gained == IF qiGains > 0
                THEN [s EXCEPT !.qi = safeAddQi(s, qiGains),
                               !.reinc.lifetimeQi = @ + qiGains]
                ELSE s
      ages == ~isImmortal(gained) /\ gained.lifespan.max # Null
      newAge == IF ages THEN Max(0, Min(gained.age + yearsPassed, gained.lifespan.max))
                ELSE gained.age
      aged == [gained EXCEPT !.age = newAge,
                             !.lifespan.current =
                                IF ages THEN Max(0, gained.lifespan.max - newAge) ELSE @]
      resumed == [w EXCEPT !.S = aged]
  IN  IF ~s.session.active \/ lastSpeed <= 0 \/ elapsedSec < 1 THEN cleared
      ELSE IF ages /\ newAge >= gained.lifespan.max THEN checkLifespanGate(resumed)
      ELSE IF qiGains > 0 THEN _enqueue(resumed, OfflineModal)
      ELSE resumed

\* applyOfflineProgressOnResume(); closed_door and offlineKarmaBonus are not
\* configured, so totalOfflineMult() and the bonus multiplier are 1
applyOfflineProgressOnResume(w, elapsedSec) ==
  LET s == w.S
      cleared == [w EXCEPT !.S.session = NoSession]
      lastSpeed == s.session.lastSpeed
      cappedSec == Min(elapsedSec, BAL.offline.capHours * 3600)
      qiGains == totalQPS(s) * cappedSec
      yearsPassed == yearsFor(cappedSec, lastSpeed)
      gained == IF qiGains > 0
                THEN [s EXCEPT !.qi = safeAddQi(s, qiGains),
                               !.reinc.lifetimeQi = @ + qiGains]
                ELSE s
      ages == ~isImmortal(gained) /\ gained.lifespan.max # Null
      newAge == IF ages THEN Max(0, Min(gained.age + yearsPassed, gained.lifespan.max))
                ELSE IF ~isImmortal(gained) THEN gained.age + yearsPassed
                ELSE gained.age
      aged == [gained EXCEPT !.age = newAge,
                             !.lifespan.current =
                                IF ages THEN Max(0, gained.lifespan.max - newAge) ELSE @,
                             !.session = NoSession]
      lifespanExceeded == ages /\ newAge >= gained.lifespan.max
      resumed == [w EXCEPT !.S = aged]
  IN  IF ~s.session.active THEN cleared
      ELSE IF lastSpeed <= 0 THEN cleared
      ELSE IF elapsedSec < 1 THEN cleared
      ELSE IF lifespanExceeded THEN checkLifespanGate(resumed)
      ELSE IF qiGains > 0 THEN _enqueue(resumed, OfflineModal)
      ELSE resumed

(***************************************************************************)
(* Stage-cost probes: a raw stageRequirement section is validated as       *)
(* loadBalance does, then the requirement of one ladder position and of    *)
(* its successor are computed.                                             *)
(***************************************************************************)
MaxProbeKarma == 4

RawRealmBases == {NaN, Num(100), Num(8000)}
RawRealmBaseScales == {NaN, Num(500)}
RawStageScales == {NaN, Num(101), Num(120), Num(142)}
RawStageRequirements ==
  [realmBase : RawRealmBases, realmBaseScale : RawRealmBaseScales,
   stageScale : RawStageScales]

HasNextPosition(realmIndex, stage) == ~(realmIndex = LAST_REALM /\ stage = StageCount)
NextRealmOf(realmIndex, stage) == IF stage = StageCount THEN realmIndex + 1 ELSE realmIndex
NextStageOf(realmIndex, stage) == IF stage = StageCount THEN 1 ELSE stage + 1

IdleModals ==
  [queue |-> <<>>, isActive |-> FALSE, currentOverlay |-> NoModal,
   previousTimeSpeed |-> Null]
NoTimers == [displayNext |-> FALSE, spiritNotice |-> FALSE]

CostInit ==
  /\ BAL = [SimBalance EXCEPT
              !.stageRequirement = [realmBase |-> 8000, realmBaseScale |-> 500,
                                    stageScale |-> 142]]
  /\ S = defaultState
  /\ isHandlingDeath = FALSE
  /\ MM = IdleModals
  /\ timers = NoTimers
  /\ hidden = FALSE
  /\ probe \in [phase : {"raw"}, raw : RawStageRequirements,
                karma : 0 .. MaxProbeKarma, realmIndex : Realms, stage : Stages]

loadBalance ==
  /\ probe.phase = "raw"
  /\ BAL' = [BAL EXCEPT !.stageRequirement = validateStageRequirement(probe.raw)]
  /\ probe' = [probe EXCEPT !.phase = "validated"]
  /\ UNCHANGED gameVars

probeStageRequirement ==
  /\ probe.phase = "validated"
  /\ probe' =
       [phase |-> "probed", raw |-> probe.raw, karma |-> probe.karma,
        realmIndex |-> probe.realmIndex, stage |-> probe.stage,
        req |-> stageRequirement(BAL.stageRequirement, probe.karma,
                                 probe.realmIndex, probe.stage),
        next |-> IF HasNextPosition(probe.realmIndex, probe.stage)
                 THEN stageRequirement(BAL.stageRequirement, probe.karma,
                                       NextRealmOf(probe.realmIndex, probe.stage),
                                       NextStageOf(probe.realmIndex, probe.stage))
                 ELSE <<>>]
  /\ UNCHANGED <<BAL, gameVars>>

CostNext == loadBalance \/ probeStageRequirement
SpecCost == CostInit /\ [][CostNext]_vars

\* C5: for every validated configuration and karma, the requirement of the
\* next ladder position is strictly greater than that of the current one,
\* within a realm and across a realm boundary.
StageCostStrictlyIncreasing ==
  (probe.phase = "probed" /\ HasNextPosition(probe.realmIndex, probe.stage))
    => BigLess(probe.req, probe.next)

\* C6: the requirement of stage 1 of the next realm is at least 1.25 times
\* the requirement of stage 10 of the realm being left.
CrossRealmJumpAtLeast125 ==
  (probe.phase = "probed" /\ probe.stage = StageCount /\ probe.realmIndex < LAST_REALM)
    => BigLeq(BigMulSmall(probe.req, CROSS_REALM_JUMP), BigMulSmall(probe.next, 100))

(***************************************************************************)
(* BalanceConfig, timeSpeed and lifespan sections.  A raw array field is   *)
(* an array, undefined (missing) or a value of the wrong type.  Speeds in  *)
(* quarters, lifespans in years, yearsPerSecond in thousandths.            *)
(***************************************************************************)
Arr(items) == [type |-> "array", items |-> items]
Undefined == [type |-> "undefined", items |-> <<>>]
NotArray == [type |-> "number", items |-> <<>>]
IsArr(v) == v.type = "array"

\* x || []
OrEmpty(v) == IF v.type = "undefined" THEN Arr(<<>>) ELSE v
\* x.length, undefined for a number
LengthOf(v) == IF IsArr(v) THEN Len(v.items) ELSE Null
Threw(section) == [ok |-> FALSE, section |-> section]
Returned(section) == [ok |-> TRUE, section |-> section]

BaseSpeedsRequired == <<0, 1, 2, 4>>
SpeedsOf(pairs) == {pairs[i][1] : i \in 1 .. Len(pairs)}

\* currentSpeeds.map((speed, i) => ({speed, unlock: currentUnlocks[i] || 0}))
speedUnlockPairs(speeds, unlocks) ==
  [i \in 1 .. Len(speeds) |-> <<speeds[i], IF i <= Len(unlocks) THEN unlocks[i] ELSE 0>>]

\* baseSpeedsRequired.forEach: a missing base speed is pushed with unlock 0
RECURSIVE addBaseSpeeds(_, _)
addBaseSpeeds(pairs, idx) ==
  IF idx > Len(BaseSpeedsRequired) THEN pairs
  ELSE addBaseSpeeds(IF BaseSpeedsRequired[idx] \in SpeedsOf(pairs) THEN pairs
                     ELSE Append(pairs, <<BaseSpeedsRequired[idx], 0>>),
                     idx + 1)

\* the first pair of every speed, in the order met
RECURSIVE uniquePairs(_, _)
uniquePairs(pairs, kept) ==
  IF pairs = <<>> THEN kept
  ELSE uniquePairs(Tail(pairs),
                   IF Head(pairs)[1] \in SpeedsOf(kept) THEN kept
                   ELSE Append(kept, Head(pairs)))

\* uniquePairs.sort((a, b) => a.speed - b.speed), a stable sort
RECURSIVE insertPair(_, _)
insertPair(sorted, pair) ==
  IF sorted = <<>> THEN <<pair>>
  ELSE IF pair[1] < Head(sorted)[1] THEN <<pair>> \o sorted
  ELSE <<Head(sorted)>> \o insertPair(Tail(sorted), pair)

RECURSIVE sortPairs(_, _)
sortPairs(pairs, sorted) ==
  IF pairs = <<>> THEN sorted
  ELSE sortPairs(Tail(pairs), insertPair(sorted, Head(pairs)))

rebuildTimeSpeed(pairs) ==
  [present |-> TRUE,
   speeds |-> Arr([i \in 1 .. Len(pairs) |-> pairs[i][1]]),
   unlockRealmIndex |-> Arr([i \in 1 .. Len(pairs) |-> pairs[i][2]])]

\* the section after the base speeds, the de-duplication and the sort; the
\* spread of a field that is not an array throws
normalizeTimeSpeed(ts) ==
  IF ~IsArr(ts.speeds) \/ ~IsArr(ts.unlockRealmIndex) THEN Threw(ts)
  ELSE Returned(rebuildTimeSpeed(
         sortPairs(uniquePairs(addBaseSpeeds(
           speedUnlockPairs(ts.speeds.items, ts.unlockRealmIndex.items), 1), <<>>), <<>>)))

\* both arrays cut to the shorter length; slice of a number throws
truncateTimeSpeed(ts, speeds, unlocks) ==
  IF ~IsArr(speeds) THEN Threw(ts)
  ELSE IF ~IsArr(unlocks) THEN Threw([ts EXCEPT !.speeds = Arr(<<>>)])
  ELSE normalizeTimeSpeed(
         [present |-> TRUE,
          speeds |-> Arr(SubSeq(speeds.items, 1, Min(Len(speeds.items), Len(unlocks.items)))),
          unlockRealmIndex |->
            Arr(SubSeq(unlocks.items, 1, Min(Len(speeds.items), Len(unlocks.items))))])

validateTimeSpeed(ts) ==
  IF ~ts.present THEN Returned(ts)
  ELSE IF LengthOf(OrEmpty(ts.speeds)) # LengthOf(OrEmpty(ts.unlockRealmIndex))
  THEN truncateTimeSpeed(ts, OrEmpty(ts.speeds), OrEmpty(ts.unlockRealmIndex))
  ELSE normalizeTimeSpeed(ts)

PADDING_DEFAULT == 100
YPS_MIN == 5
YPS_MAX == 100
YPS_RESET == 500

validateYearsPerSecond(yps) ==
  IF ~IsNum(yps) THEN Num(YPS_RESET)
  ELSE IF yps[2] < YPS_MIN THEN Num(YPS_MIN)
  ELSE IF yps[2] > YPS_MAX THEN Num(YPS_MAX)
  ELSE yps

\* the array cut or padded with its last value to one lifespan per realm
fitLifespans(items) ==
  IF Len(items) > RealmCount THEN SubSeq(items, 1, RealmCount)
  ELSE [i \in 1 .. RealmCount |->
          IF i <= Len(items) THEN items[i]
          ELSE IF items = <<>> THEN PADDING_DEFAULT ELSE items[Len(items)]]

\* the padding loop reads the length of the field itself, which throws
\* when the field is missing; the field is an array otherwise
validateLifespan(ls) ==
  IF ~ls.present THEN Returned(ls)
  ELSE IF ~IsArr(ls.realmMaxLifespan) THEN Threw(ls)
  ELSE Returned(
         [present |-> TRUE,
          realmMaxLifespan |->
            Arr([fitLifespans(ls.realmMaxLifespan.items) EXCEPT ![RealmCount] = Null]),
          yearsPerSecond |-> validateYearsPerSecond(ls.yearsPerSecond)])

\* a validated stageRequirement section, as the numbers a later call reads
validatedStageRequirement(sr) ==
  [realmBase |-> Num(validateStageRequirement(sr).realmBase),
   realmBaseScale |-> Num(validateStageRequirement(sr).realmBaseScale),
   stageScale |-> Num(validateStageRequirement(sr).stageScale)]

\* sections validated in order; a throw leaves the later sections as they were
validateBalanceConfig(bal) ==
  IF ~validateTimeSpeed(bal.timeSpeed).ok
  THEN [ok |-> FALSE, BAL |-> bal]
  ELSE IF ~validateLifespan(bal.lifespan).ok
  THEN [ok |-> FALSE,
        BAL |-> [bal EXCEPT !.timeSpeed = validateTimeSpeed(bal.timeSpeed).section]]
  ELSE [ok |-> TRUE,
        BAL |-> [timeSpeed |-> validateTimeSpeed(bal.timeSpeed).section,
                 lifespan |-> validateLifespan(bal.lifespan).section,
                 stageRequirement |-> validatedStageRequirement(bal.stageRequirement)]]

(***************************************************************************)
(* Configuration probes: a raw configuration is validated once and once    *)
(* more, or is the content of balance.json that loadBalance merges over    *)
(* the built-in configuration and validates.                               *)
(***************************************************************************)
DefaultBalance ==
  [timeSpeed |->
     [present |-> TRUE, speeds |-> Arr(<<0, 2, 4, 8, 16, 24, 32, 40>>),
      unlockRealmIndex |-> Arr(<<0, 0, 2, 4, 6, 8, 9>>)],
   lifespan |->
     [present |-> TRUE,
      realmMaxLifespan |->
        Arr(<<50, 100, 200, 500, 1000, 3000, 10000, 50000, 100000, 500000, Null>>),
      yearsPerSecond |-> Num(500)],
   stageRequirement |->
     [realmBase |-> Num(8000), realmBaseScale |-> Num(500), stageScale |-> Num(142)]]

RawSpeedLists ==
  {Undefined, NotArray, Arr(<<>>), DefaultBalance.timeSpeed.speeds, Arr(<<8, 4, 8, 0>>)}
RawUnlockLists ==
  {Undefined, Arr(<<>>), DefaultBalance.timeSpeed.unlockRealmIndex, Arr(<<4, 3, 6, 0>>)}
RawLifespanLists ==
  {Undefined, DefaultBalance.lifespan.realmMaxLifespan, Arr(<<50, 100>>),
   Arr(<<50, 100, 200, 500, 1000, 3000, 10000, 50000, 100000, 500000, 600000, Null>>)}
RawYearsPerSecond == {NaN, Num(1), Num(5), Num(50), Num(100), Num(500)}
RawConfigStageScales == RawStageScales \cup {Num(50), Num(100)}

AbsentTimeSpeed == [present |-> FALSE, speeds |-> Undefined, unlockRealmIndex |-> Undefined]
AbsentLifespan == [present |-> FALSE, realmMaxLifespan |-> Undefined, yearsPerSecond |-> NaN]

RawConfigs ==
  [timeSpeed : {AbsentTimeSpeed} \cup
                 [present : {TRUE}, speeds : RawSpeedLists, unlockRealmIndex : RawUnlockLists],
   lifespan : {AbsentLifespan} \cup
                [present : {TRUE}, realmMaxLifespan : RawLifespanLists,
                 yearsPerSecond : RawYearsPerSecond],
   stageRequirement : [realmBase : {NaN, Num(8000)}, realmBaseScale : {Num(500)},
                       stageScale : RawConfigStageScales]]

\* BAL = { ...BAL, ...balanceData }: a section of the file replaces the
\* built-in section whole
mergeBalance(bal, balanceData) ==
  [timeSpeed |-> IF balanceData.timeSpeed.present THEN balanceData.timeSpeed
                 ELSE bal.timeSpeed,
   lifespan |-> IF balanceData.lifespan.present THEN balanceData.lifespan ELSE bal.lifespan,
   stageRequirement |-> balanceData.stageRequirement]

\* the call inside try, whose throw is caught, then the call after it
loadBalanceFetched(balanceData) ==
  validateBalanceConfig(
    validateBalanceConfig(mergeBalance(DefaultBalance, balanceData)).BAL)

ConfigInit ==
  /\ BAL = SimBalance
  /\ S = defaultState
  /\ isHandlingDeath = FALSE
  /\ MM = IdleModals
  /\ timers = NoTimers
  /\ hidden = FALSE
  /\ probe \in {[phase |-> "config", calls |-> 0, ok |-> TRUE, raw |-> raw, BAL |-> raw] :
                   raw \in RawConfigs}

\* one call of validateBalanceConfig on the configuration at hand
validateConfig ==
  /\ probe.phase = "config" /\ probe.calls < 2 /\ probe.ok
  /\ probe' = [probe EXCEPT !.calls = @ + 1,
                            !.ok = validateBalanceConfig(probe.BAL).ok,
                            !.BAL = validateBalanceConfig(probe.BAL).BAL]
  /\ UNCHANGED <<BAL, gameVars>>

\* loadBalance() when balance.json is fetched and parsed
loadBalanceFile ==
  /\ probe.phase = "config" /\ probe.calls = 0
  /\ probe' = [probe EXCEPT !.phase = "loaded", !.calls = 2,
                            !.ok = loadBalanceFetched(probe.raw).ok,
                            !.BAL = loadBalanceFetched(probe.raw).BAL]
  /\ UNCHANGED <<BAL, gameVars>>

\* loadBalance() when the fetch fails: the built-in configuration is validated
loadBalanceFallback ==
  /\ probe.phase = "config" /\ probe.calls = 0
  /\ probe' = [probe EXCEPT !.phase = "fallback", !.calls = 1,
                            !.ok = validateBalanceConfig(DefaultBalance).ok,
                            !.BAL = validateBalanceConfig(DefaultBalance).BAL]
  /\ UNCHANGED <<BAL, gameVars>>

ConfigNext == validateConfig \/ loadBalanceFile \/ loadBalanceFallback
ConfigSpec == ConfigInit /\ [][ConfigNext]_vars

Validated == probe.phase \in {"config", "loaded", "fallback"} /\ probe.calls > 0

\* C21: validateBalanceConfig, and loadBalance which calls it, never throw,
\* whatever the raw configuration: missing fields and arrays and fields of
\* the wrong type included.
ConfigValidationNeverThrows == Validated => probe.ok

\* C22: after a single call of validateBalanceConfig, whatever the input
\* values, yearsPerSecond is within [0.005, 0.1], stageScale is above 1,
\* realmBase and realmBaseScale are positive, and a second call changes
\* nothing.
SingleCallReachesFixpoint ==
  (probe.phase = "config" /\ probe.calls = 1 /\ probe.ok) =>
    /\ probe.BAL.lifespan.present =>
          /\ IsNum(probe.BAL.lifespan.yearsPerSecond)
          /\ probe.BAL.lifespan.yearsPerSecond[2] \in YPS_MIN .. YPS_MAX
    /\ probe.BAL.stageRequirement.stageScale[2] > 100
    /\ probe.BAL.stageRequirement.realmBase[2] > 0
    /\ probe.BAL.stageRequirement.realmBaseScale[2] > 0
    /\ validateBalanceConfig(probe.BAL).BAL = probe.BAL

\* the timeSpeed section handed to the first call
InputTimeSpeed ==
  IF probe.phase = "config" THEN probe.raw.timeSpeed
  ELSE IF probe.phase = "loaded" THEN mergeBalance(DefaultBalance, probe.raw).timeSpeed
  ELSE DefaultBalance.timeSpeed

\* the pairs of the input that survive the cut to the shorter array
InputPairs(ts) ==
  {<<OrEmpty(ts.speeds).items[j], OrEmpty(ts.unlockRealmIndex).items[j]>> :
     j \in 1 .. Min(Len(OrEmpty(ts.speeds).items), Len(OrEmpty(ts.unlockRealmIndex).items))}

IsNormalized(ts, input) ==
  /\ IsArr(ts.speeds) /\ IsArr(ts.unlockRealmIndex)
  /\ {0, 1, 2, 4} \subseteq {ts.speeds.items[i] : i \in 1 .. Len(ts.speeds.items)}
  /\ \A i, j \in 1 .. Len(ts.speeds.items) :
        i < j => ts.speeds.items[i] < ts.speeds.items[j]
  /\ Len(ts.speeds.items) = Len(ts.unlockRealmIndex.items)
  /\ \A i \in 1 .. Len(ts.speeds.items) :
        \/ <<ts.speeds.items[i], ts.unlockRealmIndex.items[i]>> \in InputPairs(input)
        \/ /\ ts.speeds.items[i] \in {0, 1, 2, 4} /\ ts.unlockRealmIndex.items[i] = 0
           /\ \A pair \in InputPairs(input) : pair[1] # ts.speeds.items[i]

\* C23: after validateBalanceConfig, for every input timeSpeed section, the
\* speeds contain 0, 0.25, 0.5 and 1, have no duplicates, ascend, are as
\* many as the unlock realms, and every retained speed keeps its own unlock
\* realm.
TimeSpeedNormalized ==
  (Validated /\ InputTimeSpeed.present) => IsNormalized(probe.BAL.timeSpeed, InputTimeSpeed)

(***************************************************************************)
(* Qi at full magnitude: the amount of Qi as an arbitrary-precision        *)
(* natural (whole Qi), under the three kinds of update the engine makes:   *)
(* safeAddQi of a gain (tick, onClick, offline catch-up), a guarded        *)
(* payment (buySkill, doBreakthrough) and the fresh state of a             *)
(* reincarnation.                                                          *)
(***************************************************************************)
RECURSIVE BigAddCarry(_, _, _)
BigAddCarry(a, b, carry) ==
  IF Len(a) = 0 /\ Len(b) = 0 THEN BigFromInt(carry)
  ELSE LET v == (IF Len(a) = 0 THEN 0 ELSE a[1]) + (IF Len(b) = 0 THEN 0 ELSE b[1]) + carry
       IN  <<v % BigBase>> \o
             BigAddCarry(IF Len(a) = 0 THEN a ELSE Tail(a),
                         IF Len(b) = 0 THEN b ELSE Tail(b), v \div BigBase)

BigAdd(a, b) == BigNorm(BigAddCarry(a, b, 0))

\* a - b for b <= a
RECURSIVE BigSubBorrow(_, _, _)
BigSubBorrow(a, b, borrow) ==
  IF Len(a) = 0 THEN <<>>
  ELSE LET v == a[1] - (IF Len(b) = 0 THEN 0 ELSE b[1]) - borrow
       IN  <<(v + BigBase) % BigBase>> \o
             BigSubBorrow(Tail(a), IF Len(b) = 0 THEN b ELSE Tail(b),
                          IF v < 0 THEN 1 ELSE 0)

BigSub(a, b) == BigNorm(BigSubBorrow(a, b, 0))

\* 10^(4 * n)
BigPow4(n) == [i \in 1 .. n + 1 |-> IF i = n + 1 THEN 1 ELSE 0]

\* 1e300
QI_CEILING == BigPow4(75)

Finite(value) == [kind |-> "finite", value |-> value]
NotFinite == [kind |-> "Infinity", value |-> <<>>]
NotANumber == [kind |-> "NaN", value |-> <<>>]

safeAddQiUnclamped(qi, x) ==
  IF x.kind # "finite" \/ x.value = <<>> THEN qi ELSE BigAdd(qi, x.value)

\* S.qi after safeAddQi(x): Math.max(0, Math.min(S.qi + x, 1e300))
safeAddQiWide(qi, x) ==
  IF x.kind # "finite" \/ x.value = <<>> THEN qi
  ELSE IF BigLess(QI_CEILING, BigAdd(qi, x.value)) THEN QI_CEILING
  ELSE BigAdd(qi, x.value)

\* if (S.qi < cost) return; S.qi -= cost
payQi(qi, cost) == IF BigLess(qi, cost) THEN qi ELSE BigSub(qi, cost)

\* gains and prices: 1, 1e148, 4e299, 1e300 and 2e300 Qi
WideAmounts ==
  {<<1>>, BigPow4(37), BigMulSmall(BigPow4(74), 4000), QI_CEILING,
   BigMulSmall(QI_CEILING, 2)}
WideGains == {Finite(a) : a \in WideAmounts} \cup {Finite(<<>>), NotFinite, NotANumber}

\* updates of the amount in one run
MaxQiOps == 4

QiInit ==
  /\ BAL = SimBalance
  /\ S = defaultState
  /\ isHandlingDeath = FALSE
  /\ MM = IdleModals
  /\ timers = NoTimers
  /\ hidden = FALSE
  /\ probe = [phase |-> "qi", qi |-> <<>>, ops |-> 0, before |-> <<>>,
              x |-> Finite(<<>>)]

\* tick, onClick and the offline catch-up hand their gain to safeAddQi
QiGain ==
  \E x \in WideGains :
    /\ probe.phase = "qi" /\ probe.ops < MaxQiOps
    /\ probe' = [probe EXCEPT !.qi = safeAddQiWide(probe.qi, x), !.ops = @ + 1,
                              !.before = probe.qi, !.x = x]
    /\ UNCHANGED <<BAL, gameVars>>

\* buySkill and doBreakthrough pay a price the Qi at hand covers
QiPayment ==
  \E cost \in WideAmounts :
    /\ probe.phase = "qi" /\ probe.ops < MaxQiOps
    /\ probe' = [probe EXCEPT !.qi = payQi(probe.qi, cost), !.ops = @ + 1,
                              !.before = probe.qi, !.x = Finite(<<>>)]
    /\ UNCHANGED <<BAL, gameVars>>

\* doReincarnate starts the next life without Qi
QiReincarnation ==
  /\ probe.phase = "qi" /\ probe.ops < MaxQiOps
  /\ probe' = [probe EXCEPT !.qi = BigFromInt(defaultState.qi), !.ops = @ + 1,
                            !.before = probe.qi, !.x = Finite(<<>>)]
  /\ UNCHANGED <<BAL, gameVars>>

QiNext == QiGain \/ QiPayment \/ QiReincarnation
QiSpec == QiInit /\ [][QiNext]_vars

\* C24: in every state reached by ticks, clicks, purchases, breakthroughs,
\* offline catch-ups and reincarnations, qi is a finite amount with
\* 0 <= qi <= 1e300.
QiWithinBounds ==
  probe.phase = "qi" =>
    /\ probe.qi \in Seq(0 .. BigBase - 1)
    /\ BigLeq(probe.qi, QI_CEILING)

\* a gain that would have carried qi past 1e300 left it at 1e300
QiAtCeiling ==
  /\ probe.phase = "qi" /\ probe.x.kind = "finite" /\ probe.x.value # <<>>
  /\ probe.before # <<>>
  /\ BigLess(QI_CEILING, BigAdd(probe.before, probe.x.value))
  /\ probe.qi = QI_CEILING

(***************************************************************************)
(* The game as a state machine                                             *)
(***************************************************************************)
\* modals waiting behind the one on display
MaxQueue == 1
\* reincarnations done or being offered
MaxTimes == 2
\* deaths of one cultivator between reincarnations
MaxDeaths == 1
\* seconds between two frames, and away from the tab: half a mortal life at 1x
FrameSeconds == 25 * 10
FrameInputs == {FrameSeconds}
OfflineInputs == {0, FrameSeconds}
\* the Qi, in cQi, that gathering may reach
MaxQi == 200 * 100

\* the speed buttons pressed: 0x, 1x and 2x, in quarters
SpeedInputs == {0, ONE_X, 8}
\* the bulk multipliers the buy buttons pass
BuyQuantities == {1, 2}
NoProbe == [phase |-> "none"]

World == [S |-> S, MM |-> MM, isHandlingDeath |-> isHandlingDeath, timers |-> timers]

ConfirmsPending(mm) ==
  Cardinality({i \in 1 .. Len(mm.queue) : mm.queue[i].kind \in ConfirmKinds})
    + (IF mm.currentOverlay.kind \in ConfirmKinds THEN 1 ELSE 0)

\* the bounds an operation's result must respect for the operation to be taken
Within(w) ==
  /\ \/ w.S.qi <= Max(MaxQi, S.qi)
     \* a life that can pay for the gate meets its end with that Qi in hand
     \/ /\ isAtCycleEnd(S) /\ canBreakthrough(S)
        /\ w.S.flags.lifespanHandled /\ ~S.flags.lifespanHandled
  /\ Len(w.MM.queue) <= MaxQueue
  /\ (w.isHandlingDeath /\ ~isHandlingDeath) => S.stats.deaths < MaxDeaths
  /\ ConfirmsPending(w.MM) > ConfirmsPending(MM)
       => S.reinc.times + ConfirmsPending(MM) < MaxTimes

Commit(w) ==
  /\ S' = w.S
  /\ MM' = w.MM
  /\ isHandlingDeath' = w.isHandlingDeath
  /\ timers' = w.timers
  /\ UNCHANGED <<BAL, probe>>


\* one frame of loop(), rawDt seconds after the previous one
LoopFrame(rawDt) ==
  /\ ~hidden
  /\ LET w == tick(World, rawDt, loopSpeed(S))
     IN  /\ Within(w)
         /\ Commit(w)
  /\ UNCHANGED hidden

Loop == \E rawDt \in FrameInputs : LoopFrame(rawDt)

\* pointerdown on the cultivator
Click ==
  /\ ~hidden
  /\ LET w == [World EXCEPT !.S = onClick(S)]
     IN  /\ Within(w)
         /\ Commit(w)
  /\ UNCHANGED hidden

\* a speed button
SetSpeed ==
  /\ ~hidden
  /\ \E speed \in SpeedInputs :
       Commit([World EXCEPT !.S = setTimeSpeed(S, speed)])
  /\ UNCHANGED hidden

\* a buy button of the shop
Buy ==
  /\ ~hidden
  /\ \E id \in SkillIds, qty \in BuyQuantities :
       LET r == buySkill(S, id, qty)
       IN  Commit([World EXCEPT !.S = r.S])
  /\ UNCHANGED hidden

\* the breakthrough button
Breakthrough ==
  /\ ~hidden
  /\ LET w == doBreakthrough(World)
     IN  /\ Within(w)
         /\ Commit(w)
  /\ UNCHANGED hidden

\* the reincarnate button
ManualReincarnate ==
  /\ ~hidden
  /\ LET w == tryManualReincarnate(World)
     IN  /\ Within(w)
         /\ Commit(w)
  /\ UNCHANGED hidden

\* a button of the displayed modal, Enter, Escape or a click on its backdrop
CloseWith(confirmed) ==
  /\ ~hidden
  /\ MM.currentOverlay # NoModal
  /\ confirmed \/ MM.currentOverlay.kind \in ConfirmKinds
  /\ Commit(handleClose(World, confirmed))
  /\ UNCHANGED hidden

CloseModal == \E confirmed \in BOOLEAN : CloseWith(confirmed)

\* the 100 ms timer handleClose starts
DisplayNextTimer ==
  /\ timers.displayNext
  /\ Commit(_displayNext([World EXCEPT !.timers.displayNext = FALSE]))
  /\ UNCHANGED hidden

\* the 500 ms timer doBreakthrough starts on entering Void Refining
SpiritNoticeTimer ==
  /\ timers.spiritNotice
  /\ LET w == showModal([World EXCEPT !.timers.spiritNotice = FALSE])
     IN  /\ Len(w.MM.queue) <= MaxQueue
         /\ Commit(w)
  /\ UNCHANGED hidden

\* visibilitychange to hidden
Hide ==
  /\ ~hidden
  /\ hidden' = TRUE
  /\ Commit([World EXCEPT !.S = saveSessionSnapshot(S)])

\* visibilitychange to visible
Show ==
  /\ hidden
  /\ hidden' = FALSE
  /\ \E elapsedSec \in OfflineInputs :
       LET w == applyOfflineProgressOnResume(World, elapsedSec)
       IN  /\ Within(w)
           /\ Commit(w)

(***************************************************************************)
(* Initial states: a new game, and saved games that importSave() restores. *)
(* A saved game stands at a ladder position with the Qi of this life that  *)
(* reaching the position has cost plus the Qi in hand.                     *)
(***************************************************************************)
RECURSIVE StagesCost(_, _, _)
StagesCost(karma, realmIndex, upto) ==
  IF upto = 0 THEN 0
  ELSE 100 * BigToInt(stageRequirement(BAL.stageRequirement, karma, realmIndex, upto))
       + StagesCost(karma, realmIndex, upto - 1)

RECURSIVE SpentBefore(_, _, _)
SpentBefore(karma, realmIndex, stage) ==
  IF realmIndex = 0 THEN StagesCost(karma, 0, stage - 1)
  ELSE StagesCost(karma, realmIndex, stage - 1)
       + StagesCost(karma, realmIndex - 1, StageCount)
       + SpentBefore(karma, realmIndex - 1, 1)

SavedGame(realmIndex, stage, qi, karma, times, transcended) ==
  LET placed == [defaultState EXCEPT
                   !.realmIndex = realmIndex,
                   !.stage = stage,
                   !.qi = qi,
                   !.qpcBase = @ + realmIndex * BAL.progression.realmAdvanceReward.qpcBaseAdd,
                   !.qpsBase = @ + realmIndex * BAL.progression.realmAdvanceReward.qpsBaseAdd,
                   !.reinc = [times |-> times, karma |-> karma,
                              lifetimeQi |-> SpentBefore(karma, realmIndex, stage) + qi],
                   !.flags = [unlockedBeyondSpirit |-> transcended,
                              hasUnlockedSpiritCycle |-> transcended,
                              hasCompletedMandatoryST10 |-> transcended,
                              canManualReincarnate |-> transcended,
                              lifespanHandled |-> FALSE],
                   !.meta.unlockedSpeeds =
                      SpeedsUnlockedAt(IF transcended THEN Max(realmIndex, ST_INDEX)
                                       ELSE realmIndex)]
      max == getMaxLifespan(placed, realmIndex)
  IN  [placed EXCEPT !.lifespan = [current |-> max, max |-> max]]

\* the requirement of a position, in cQi, for a life with this karma
RequirementAt(karma, realmIndex, stage) ==
  100 * BigToInt(stageRequirement(BAL.stageRequirement, karma, realmIndex, stage))

\* saves the program can import: a new game; a first life (karma 0) in realm 1
\* and at the Spirit Transformation gate; a second life (one reincarnation,
\* karma 8) at the same position with the gate passed, and at the top of
\* the ladder
SavedGames ==
  { defaultState,
    SavedGame(1, 1, 100 * 100, 0, 0, FALSE),
    SavedGame(ST_INDEX, StageCount, RequirementAt(0, ST_INDEX, StageCount),
              0, 0, FALSE),
    SavedGame(ST_INDEX, StageCount, RequirementAt(8, ST_INDEX, StageCount),
              8, 1, TRUE),
    SavedGame(LAST_REALM, StageCount, RequirementAt(8, LAST_REALM, StageCount),
              8, 1, TRUE) }

Init ==
  /\ BAL = SimBalance
  /\ S \in SavedGames
  /\ isHandlingDeath = FALSE
  /\ MM = IdleModals
  /\ timers = NoTimers
  /\ hidden = FALSE
  /\ probe = NoProbe

Next ==
  \/ Loop
  \/ Click
  \/ SetSpeed
  \/ Buy
  \/ Breakthrough
  \/ ManualReincarnate
  \/ CloseModal
  \/ DisplayNextTimer
  \/ SpiritNoticeTimer
  \/ Hide
  \/ Show

Spec == Init /\ [][Next]_vars

\* Timers fire.  The player comes back to a hidden tab and dismisses the
\* modal on display: the acknowledgement the death handler awaits.
FairSpec ==
  /\ Spec
  /\ WF_vars(DisplayNextTimer)
  /\ WF_vars(Show)
  /\ SF_vars(CloseModal)

(***************************************************************************)
(* Properties                                                              *)
(***************************************************************************)
\* death alerts on display or queued
DeathNotices(mm) ==
  Cardinality({i \in 1 .. Len(mm.queue) : mm.queue[i].kind = "death"})
    + (IF mm.currentOverlay.kind = "death" THEN 1 ELSE 0)

\* the step that dismisses the death alert
DeathAcknowledged == CloseWith(TRUE) /\ MM.currentOverlay.kind = "death"

\* C1: single death per life.  A death being handled has exactly one death
\* alert outstanding and no death is handled without one; no frame of the
\* loop, before or after the acknowledgement, changes stats.deaths,
\* reinc.karma or reinc.times, and a frame raises a death alert only by
\* tripping the latch; the acknowledgement adds exactly one death and the
\* karma captured at death, once, leaves reinc.times alone and starts the
\* next life with the latch open; stats.deaths grows by no other step.
SingleDeathPerLife ==
  /\ [](DeathNotices(MM) = IF isHandlingDeath THEN 1 ELSE 0)
  /\ [][Loop =>
          /\ S'.stats.deaths = S.stats.deaths
          /\ S'.reinc.karma = S.reinc.karma
          /\ S'.reinc.times = S.reinc.times
          /\ DeathNotices(MM') > DeathNotices(MM)
               => (~S.flags.lifespanHandled /\ S'.flags.lifespanHandled)]_vars
  /\ [][DeathAcknowledged =>
          /\ S'.stats.deaths = S.stats.deaths + 1
          /\ S'.reinc.karma = S.reinc.karma + MM.currentOverlay.gain
          /\ S'.reinc.times = S.reinc.times
          /\ ~isHandlingDeath'
          /\ ~S'.flags.lifespanHandled
          /\ S'.age = 0]_vars
  /\ [][S'.stats.deaths > S.stats.deaths => DeathAcknowledged]_vars

\* a second life that has aged, after one acknowledged death
AgedAfterOneDeath ==
  S.stats.deaths = 1 /\ ~isHandlingDeath /\ ~S.flags.lifespanHandled /\ S.age > 0

\* a dismissal that runs a reset: the death alert, or an accepted prompt
ResetStep(confirmed) ==
  /\ CloseWith(confirmed)
  /\ \/ MM.currentOverlay.kind = "death"
     \/ MM.currentOverlay.kind \in ConfirmKinds /\ confirmed

\* the karma the reset adds: captured at death, or computed at the reset
ResetGain ==
  IF MM.currentOverlay.kind = "death" THEN MM.currentOverlay.gain
  ELSE computeVoluntaryKarma(S)

\* C2: reset postcondition.  Every reset (voluntary or mandatory through
\* doReincarnate, death through performDeathReincarnation) ends with qi 0,
\* realm 0, stage 1 and an empty skill ledger, karma raised by the computed
\* gain, which is positive, lifetimeQi 0 and no unlocked speed lost.
ResetPostcondition ==
  [][(\E confirmed \in BOOLEAN : ResetStep(confirmed)) =>
       /\ S'.qi = 0
       /\ S'.realmIndex = 0
       /\ S'.stage = 1
       /\ S'.skills = <<>>
       /\ S'.reinc.karma = S.reinc.karma + ResetGain
       /\ S'.reinc.karma > S.reinc.karma
       /\ S'.reinc.lifetimeQi = 0
       /\ S.meta.unlockedSpeeds \subseteq S'.meta.unlockedSpeeds]_vars

\* a life begun by a death that followed a second reincarnation
RebornAfterBothResets ==
  /\ S.reinc.times = 2
  /\ S.stats.deaths = 1
  /\ S.qi = 0 /\ S.realmIndex = 0 /\ S.stage = 1 /\ S.skills = <<>>
  /\ S.reinc.lifetimeQi = 0

\* the speeds loop() can hand to tick
LoopSpeeds == SpeedInputs \ {0}

PauseStopsTime ==
  (S.timeSpeed.paused /\ S.timeSpeed.current = 0) =>
    \A rawDt \in FrameInputs :
      LET w == tick(World, rawDt, loopSpeed(S))
      IN  /\ w.S.qi = S.qi
          /\ w.S.reinc.lifetimeQi = S.reinc.lifetimeQi
          /\ w.S.age = S.age

PurchasesRejectedWhileReincarnating ==
  S.lifecycle.isReincarnating =>
    \A id \in SkillIds, qty \in BuyQuantities :
      LET r == buySkill(S, id, qty)
      IN  ~r.ok /\ r.S.qi = S.qi /\ r.S.skills = S.skills

\* C9: while lifecycle.isReincarnating is set, tick and onClick leave qi,
\* lifetimeQi, age and lifespan unchanged, for every rawDt and speed.
InertWhileReincarnating ==
  S.lifecycle.isReincarnating =>
    /\ \A rawDt \in FrameInputs, speed \in SpeedInputs :
         LET w == tick(World, rawDt, speed)
         IN  /\ w.S.qi = S.qi
             /\ w.S.reinc.lifetimeQi = S.reinc.lifetimeQi
             /\ w.S.age = S.age
             /\ w.S.lifespan = S.lifespan
    /\ LET s == onClick(S)
       IN  /\ s.qi = S.qi
           /\ s.reinc.lifetimeQi = S.reinc.lifetimeQi
           /\ s.age = S.age
           /\ s.lifespan = S.lifespan

\* a death awaiting its acknowledgement after the player set a speed again
DeathPendingUnpaused ==
  /\ S.lifecycle.isReincarnating /\ isHandlingDeath
  /\ ~S.timeSpeed.paused /\ S.timeSpeed.current # 0
  /\ totalQPC(S) > 0

\* the game is live: a fresh life at 1x whose frames age it
LiveAgain ==
  /\ S.realmIndex = 0 /\ S.stage = 1
  /\ ~S.isDead /\ ~S.lifecycle.isReincarnating /\ ~isHandlingDeath
  /\ S.timeSpeed = [current |-> ONE_X, paused |-> FALSE]
  /\ tick(World, FrameSeconds, loopSpeed(S)).S.age > S.age

\* C10: once the death latch has tripped, and given that modals on display
\* are eventually dismissed, the reset completes and the game is live again,
\* whatever else happens in between.
DeathAlwaysCompletes == S.flags.lifespanHandled ~> LiveAgain

\* live again with the death counted
LiveAfterDeath == LiveAgain /\ S.stats.deaths = 1 /\ S.age = 0

\* the quantity and the budget assertBulkPurchaseOverflowSafety passes; the
\* budget 1e100 stands above every cost of the configuration, as this one does
BULK_TEST_QTY == 100 * 100
BULK_TEST_BUDGET == 100 * 100 * 100

\* C11: in every reachable state and for every skill of the catalog,
\* totalSkillCost(id, 10000) and maxAffordableQty(id, 10000, 1e100) are
\* finite and not negative.
BulkPurchaseFinite ==
  \A id \in SkillIds :
    /\ totalSkillCost(S, id, BULK_TEST_QTY) # Infinity
    /\ totalSkillCost(S, id, BULK_TEST_QTY) >= 0
    /\ maxAffordableQty(S, id, BULK_TEST_QTY, BULK_TEST_BUDGET) >= 0

\* session gaps, in seconds: one frame, and one beyond the offline cap
OfflineGaps == {FrameSeconds, BAL.offline.capHours * 3600 + FrameSeconds}

\* the world as a tab hidden with this speed recorded would leave it
\* the speeds the game may have been left at: paused, 1x and, once unlocked, 2x
OfflineSpeeds == SpeedInputs \cap getAvailableSpeeds(S)

LeftAt(lastSpeed) ==
  [World EXCEPT !.S.session = [active |-> TRUE, lastSpeed |-> lastSpeed]]

OfflineNotReplayable ==
  \A gap \in OfflineInputs, lastSpeed \in OfflineSpeeds :
    LET once == applyOfflineProgressOnResume(LeftAt(lastSpeed), gap)
        twice == applyOfflineProgressOnResume(once, FrameSeconds)
    IN  /\ ~once.S.session.active
        /\ twice = once

\* a catch-up has credited Qi and years and consumed its snapshot
SnapshotConsumed ==
  /\ ~hidden /\ ~S.session.active
  /\ MM.currentOverlay = OfflineModal
  /\ S.qi > 0 /\ S.age > 0

\* the step that accepts the voluntary prompt and so applies the reset
VoluntaryResetApplied ==
  CloseWith(TRUE) /\ MM.currentOverlay.kind = "confirm_voluntary"

\* C14: a voluntary reset is applied only in a state where canReincarnate()
\* holds (hasCompletedMandatoryST10 and realmIndex at or above Spirit
\* Transformation), and a voluntary request made in any other state changes
\* no progress and offers no reset.
VoluntaryOnlyWhenAllowed ==
  /\ [][VoluntaryResetApplied => canReincarnate(S)]_vars
  /\ [][(ManualReincarnate /\ ~canReincarnate(S)) =>
          /\ S'.qi = S.qi /\ S'.realmIndex = S.realmIndex /\ S'.stage = S.stage
          /\ S'.skills = S.skills /\ S'.reinc = S.reinc
          /\ ConfirmsPending(MM') = ConfirmsPending(MM)]_vars

\* the step that accepts the Gate of Transcendence and so applies the reset
MandatoryResetApplied ==
  CloseWith(TRUE) /\ MM.currentOverlay.kind = "confirm_mandatory"

TranscendenceFlags(s) ==
  /\ s.flags.hasCompletedMandatoryST10
  /\ s.flags.unlockedBeyondSpirit
  /\ s.flags.canManualReincarnate

\* C15: a mandatory reset is applied only from Spirit Transformation stage 10
\* with unlockedBeyondSpirit false (hence at most once), it sets the three
\* transcendence flags, and no later step clears any of them.
MandatoryExactlyOnce ==
  /\ [][MandatoryResetApplied =>
          /\ S.realmIndex = ST_INDEX /\ S.stage = StageCount
          /\ ~S.flags.unlockedBeyondSpirit
          /\ TranscendenceFlags(S')]_vars
  /\ [][/\ S.flags.hasCompletedMandatoryST10 => S'.flags.hasCompletedMandatoryST10
        /\ S.flags.unlockedBeyondSpirit => S'.flags.unlockedBeyondSpirit
        /\ S.flags.canManualReincarnate => S'.flags.canManualReincarnate]_vars

Cycles == {"mortal", "spirit"}
InCycle(cycle) == [S EXCEPT !.currentCycle = cycle]
MaxKarmaRoot == 40

\* the award of the formula, k being floor(sqrt(lifetimeQi / divisor));
\* lifetimeQi is in cQi and the divisor in Qi
FullAward(s, k) ==
  Max(BAL.reincarnation.minKarma,
      (k + s.realmIndex * BAL.reincarnation.realmKarmaFactor)
        * (IF s.currentCycle = "spirit" THEN 2 ELSE 1))

IsFloorRoot(s, k) ==
  /\ k * k * BAL.reincarnation.lifetimeQiDivisor * 100 <= s.reinc.lifetimeQi
  /\ s.reinc.lifetimeQi < (k + 1) * (k + 1) * BAL.reincarnation.lifetimeQiDivisor * 100

\* C16 as stated: the voluntary/mandatory award is max(minKarma, (floor(sqrt(
\* lifetimeQi / divisor)) + realmIndex * realmKarmaFactor) * cycleMultiplier)
\* and the death award is that award halved and rounded down.
KarmaAwardHalvedOnDeath ==
  \A cycle \in Cycles :
    \E k \in 0..MaxKarmaRoot :
      /\ IsFloorRoot(InCycle(cycle), k)
      /\ computeVoluntaryKarma(InCycle(cycle)) = FullAward(InCycle(cycle), k)
      /\ computeDeathKarma(InCycle(cycle)) = FullAward(InCycle(cycle), k) \div 2

\* C16: the voluntary/mandatory award is max(minKarma, (floor(sqrt(lifetimeQi
\* / divisor)) + realmIndex * realmKarmaFactor) * cycleMultiplier) with
\* cycleMultiplier 2 in the spirit cycle and 1 otherwise; the death award is
\* max(minKarma, floor(that award * deathPenalty)), deathPenalty being 0.5
\* unless configured.
KarmaAwardFormula ==
  \A cycle \in Cycles :
    \E k \in 0..MaxKarmaRoot :
      /\ IsFloorRoot(InCycle(cycle), k)
      /\ computeVoluntaryKarma(InCycle(cycle)) = FullAward(InCycle(cycle), k)
      /\ computeDeathKarma(InCycle(cycle))
           = Max(BAL.reincarnation.minKarma,
                 (FullAward(InCycle(cycle), k) * BAL.reincarnation.deathPenalty) \div 100)

\* a death notice carrying an award above the floor and below the full award
DeathAwardReduced ==
  /\ MM.currentOverlay.kind = "death"
  /\ MM.currentOverlay.gain = computeDeathKarma(S)
  /\ MM.currentOverlay.gain > BAL.reincarnation.minKarma
  /\ MM.currentOverlay.gain < computeVoluntaryKarma(S)
  /\ computeVoluntaryKarma(InCycle("spirit")) = 2 * computeVoluntaryKarma(S)

(***************************************************************************)
(* Persistence.  A JSON value is [type, fields]: fields maps the property   *)
(* names an object carries to their values and is empty for null, numbers  *)
(* and the empty array.  Storage and the import box hold texts:            *)
(* [armored, wellFormed, value].  Quantities inside a persisted object are *)
(* in the units of S.                                                      *)
(***************************************************************************)
Has(d, f) == f \in DOMAIN d

\* data.f = v
With(d, f, v) == [g \in DOMAIN d \cup {f} |-> IF g = f THEN v ELSE d[g]]

\* { ...defaults, ...d }
Spread(defaults, d) ==
  [g \in DOMAIN defaults \cup DOMAIN d |-> IF g \in DOMAIN d THEN d[g] ELSE defaults[g]]

\* JSON.stringify: own properties, nested objects, numbers and null survive
stringify(s) == [type |-> "object", fields |-> [f \in DOMAIN s |-> s[f]]]

NoText == [armored |-> FALSE, wellFormed |-> FALSE, value |-> [type |-> "none", fields |-> <<>>]]

\* what save() puts under SAVE_KEY: the JSON text, unarmored
savedText(s) == [armored |-> FALSE, wellFormed |-> TRUE, value |-> stringify(s)]

\* exportSave(): btoa(unescape(encodeURIComponent(JSON.stringify(S))))
exportSave(s) == [armored |-> TRUE, wellFormed |-> TRUE, value |-> stringify(s)]

\* property reads and writes throw on null and find nothing to keep on a
\* number or a string; an array takes properties like any object
TakesProperties(value) == value.type \in {"object", "array"}

\* the first realm-dependent default: data.lifespan for data.realmIndex
lifespanDefault(d) ==
  LET maxLifespan ==
        BAL.lifespan.realmMaxLifespan[
          Min(IF Has(d, "realmIndex") THEN d.realmIndex ELSE 0, LAST_REALM) + 1]
      lifespan == 100 * (IF maxLifespan # 0 THEN maxLifespan ELSE LIFESPAN_FALLBACK)
  IN  IF maxLifespan = Null THEN [current |-> Null, max |-> Null]
      ELSE [current |-> lifespan, max |-> lifespan]

FlagDefaults ==
  [unlockedBeyondSpirit |-> FALSE, hasUnlockedSpiritCycle |-> FALSE,
   hasCompletedMandatoryST10 |-> FALSE, canManualReincarnate |-> FALSE]

\* the flags load() and importSave() add one by one to a flags object
LateFlags == [hasUnlockedSpiritCycle |-> FALSE, hasCompletedMandatoryST10 |-> FALSE,
              canManualReincarnate |-> FALSE]

\* if(!data.f) data.f = v
Ensure(d, f, v) == IF Has(d, f) THEN d ELSE With(d, f, v)

ensureLifespan(d) == Ensure(d, "lifespan", lifespanDefault(d))

ensureFlags(d) ==
  IF Has(d, "flags") THEN With(d, "flags", Spread(LateFlags, d.flags))
  ELSE With(d, "flags", FlagDefaults)

\* base speeds are added to a saved list; metaDefault is the list given to
\* a save without meta
ensureMeta(d, metaDefault) ==
  IF Has(d, "meta")
  THEN With(d, "meta",
            [unlockedSpeeds |-> d.meta.unlockedSpeeds \cup BASE_SPEEDS_ALWAYS_AVAILABLE])
  ELSE With(d, "meta", [unlockedSpeeds |-> metaDefault])

\* the "ensure ... exists" blocks shared by load() and importSave(), up to
\* data.meta
ensureRecords(d, metaDefault) ==
  ensureMeta(
    Ensure(
      Ensure(
        ensureFlags(
          Ensure(
            ensureLifespan(
              Ensure(d, "reinc", [times |-> 0, karma |-> 0, lifetimeQi |-> 0])),
            "timeSpeed", [current |-> ONE_X, paused |-> FALSE])),
        "lifecycle", [isReincarnating |-> FALSE]),
      "stats", [deaths |-> 0]),
    metaDefault)

\* the fallback without its effect: the saved speed is kept
validateCurrentSpeedKeeping(d) == d

\* "Validate current speed is available, fallback to 1x if not"
validateCurrentSpeed(d) ==
  IF d.timeSpeed.current # 0 /\ d.timeSpeed.current \notin d.meta.unlockedSpeeds
  THEN With(d, "timeSpeed", [current |-> ONE_X, paused |-> FALSE])
  ELSE d

\* data.age of a save without it: the years its lifespan has lost
ageDefault(d) ==
  IF d.lifespan.max # Null /\ d.lifespan.current # Null
  THEN Max(0, d.lifespan.max - d.lifespan.current)
  ELSE 0

ensureLatch(d) == With(d, "flags", Spread([lifespanHandled |-> FALSE], d.flags))

\* the blocks after the speed check: age, the lifespanHandled latch, isDead
ensureAge(d) ==
  Ensure(ensureLatch(Ensure(d, "age", ageDefault(d))), "isDead", FALSE)

\* the state a persisted object becomes: the properties S carries, those
\* the object lacks taken from defaultState()
AsState(d) ==
  LET m == Spread(defaultState, d)
  IN  [ qi |-> m.qi, qpcBase |-> m.qpcBase, qpsBase |-> m.qpsBase,
        realmIndex |-> m.realmIndex, stage |-> m.stage, skills |-> m.skills,
        reinc |-> m.reinc, lifespan |-> m.lifespan, age |-> m.age,
        isDead |-> m.isDead, timeSpeed |-> m.timeSpeed,
        currentCycle |-> m.currentCycle, flags |-> m.flags,
        lifecycle |-> m.lifecycle, stats |-> m.stats, meta |-> m.meta,
        session |-> m.session ]

ImportFailedModal == [kind |-> "import_failed", gain |-> 0]
SaveImportedModal == [kind |-> "save_imported", gain |-> 0]

IMPORT_META_DEFAULT == {0, 2, 4}

\* the try block of importSave() up to the assignment of S: ok is FALSE
\* when it throws
importedState(text) ==
  IF ~text.armored \/ ~text.wellFormed \/ ~TakesProperties(text.value)
  THEN [ok |-> FALSE, S |-> defaultState]
  ELSE [ok |-> TRUE,
        S |-> AsState(ensureAge(validateCurrentSpeed(
                ensureRecords(text.value.fields, IMPORT_META_DEFAULT))))]

\* importSave() with the text of the import box; the world is [w, storage]
importSave(w, storage, text) ==
  LET r == importedState(text)
  IN  IF r.ok
      THEN [w |-> _enqueue([w EXCEPT !.S = r.S], SaveImportedModal),
            storage |-> savedText(r.S)]
      ELSE [w |-> _enqueue(w, ImportFailedModal), storage |-> storage]

\* data.realmIndex || 0
realmIndexOf(d) == IF Has(d, "realmIndex") THEN d.realmIndex ELSE 0

shiftRealmIndex(d) ==
  IF realmIndexOf(d) > 0 \/ (Has(d, "stage") /\ d.stage > 1)
  THEN With(d, "realmIndex", Min(realmIndexOf(d) + 1, LAST_REALM))
  ELSE d

\* "MORTAL REALM MIGRATION" of load()
migrateToMortalRealm(d) ==
  IF Has(d, "migratedToMortalRealm") /\ d.migratedToMortalRealm THEN d
  ELSE With(shiftRealmIndex(d), "migratedToMortalRealm", TRUE)

\* a skill value of an old save is a number, [level]; of a new one a rank record
OldLevel(value) == IF Has(value, "level") THEN value.level ELSE 0

\* if(oldValue): a number other than 0, or any record
Truthy(value) == Has(value, "level") => value.level # 0

\* the rank record of an old skill value in realm currentRealm
rankRecord(id, value, currentRealm) ==
  IF BAL.skills[id].oneTime
  THEN [purchasedOneTime |-> TRUE, total |-> 1, perRealm |-> NoRanks]
  ELSE [purchasedOneTime |-> FALSE, total |-> OldLevel(value),
        perRealm |-> [NoRanks EXCEPT ![currentRealm] = OldLevel(value)]]

newSkills(old, currentRealm) ==
  [ id \in { i \in DOMAIN old \cap SkillIds :
               IF BAL.skills[i].oneTime THEN Truthy(old[i]) ELSE OldLevel(old[i]) > 0 }
      |-> rankRecord(id, old[id], currentRealm) ]

\* "HYBRID SKILL SYSTEM MIGRATION" of load()
migrateToRankSystem(d) ==
  IF Has(d, "migratedToRankSystem") /\ d.migratedToRankSystem THEN d
  ELSE With(With(d, "skills",
                 newSkills(IF Has(d, "skills") THEN d.skills ELSE <<>>, realmIndexOf(d))),
            "migratedToRankSystem", TRUE)

\* load(): bound tells whether the binding of S is initialized when load()
\* assigns it; the assignment throws otherwise and the catch returns null
load(storage, bound) ==
  IF storage = NoText \/ ~storage.wellFormed \/ ~TakesProperties(storage.value)
  THEN [ok |-> FALSE, S |-> defaultState]
  ELSE LET data == migrateToRankSystem(ensureAge(validateCurrentSpeed(
                     ensureRecords(migrateToMortalRealm(storage.value.fields),
                                   BASE_SPEEDS_ALWAYS_AVAILABLE))))
       IN  IF ~bound THEN [ok |-> FALSE, S |-> defaultState]
           ELSE [ok |-> TRUE,
                 S |-> checkAndUnlockSpeeds(refreshLifespanForRealm(AsState(data)))]

\* let S = load() || defaultState(): load() runs inside the initializer of S
initialState(storage) ==
  LET loaded == load(storage, FALSE)
  IN  IF loaded.ok THEN loaded.S ELSE defaultState

\* init(): the lifespan of the realm, then offline progress
init(s, elapsedSec) ==
  LET maxLifespan == getMaxLifespan(s, s.realmIndex)
      fitted ==
        IF s.lifespan.max = maxLifespan THEN s
        ELSE [s EXCEPT !.lifespan =
                [max |-> maxLifespan,
                 current |-> IF maxLifespan = Null THEN Null
                             ELSE IF @.current > maxLifespan THEN maxLifespan
                             ELSE @.current]]
  IN  applyOfflineProgressOnResume(
        [S |-> fitted, MM |-> IdleModals, isHandlingDeath |-> FALSE, timers |-> NoTimers],
        elapsedSec)

(***************************************************************************)
(* The persistence machine: the game with its storage slot and import box. *)
(* probe is [phase, storage, imported]: the text under SAVE_KEY and the    *)
(* text of the last import.                                                *)
(***************************************************************************)
JsonText(type) == [armored |-> TRUE, wellFormed |-> TRUE, value |-> [type |-> type, fields |-> <<>>]]

\* text that is not base64, base64 of text that is not JSON, and JSON values
\* that are not state objects
NotBase64 == [armored |-> FALSE, wellFormed |-> TRUE, value |-> stringify(defaultState)]
NotJson == [armored |-> TRUE, wellFormed |-> FALSE, value |-> [type |-> "none", fields |-> <<>>]]
CorruptTexts == {NotBase64, NotJson, JsonText("null"), JsonText("number"), JsonText("array")}

\* a save of the first versions: no reinc, lifespan, flags, meta or skills
OldSave ==
  [armored |-> TRUE, wellFormed |-> TRUE,
   value |-> [type |-> "object", fields |-> [qi |-> 100 * 100, realmIndex |-> 1, stage |-> 2]]]

\* an export edited to run at the given speed, paused
SpeedSave(s, speed) ==
  exportSave([s EXCEPT !.timeSpeed = [current |-> speed, paused |-> TRUE]])

\* 2x, which the first realms have not unlocked, and 3x, no speed of the game
EditedSpeeds == {8, 12}

\* what the import box may hold: corrupt text, an old save, the export of
\* the running game, that export with its speed edited, and the export
\* that storage was saved from
ImportTexts ==
  CorruptTexts \cup {OldSave, exportSave(S)}
    \cup {SpeedSave(S, speed) : speed \in EditedSpeeds}
    \cup (IF probe.storage = NoText THEN {} ELSE {[probe.storage EXCEPT !.armored = TRUE]})

\* setInterval(save, 15000)
AutoSave ==
  /\ probe' = [probe EXCEPT !.storage = savedText(S)]
  /\ UNCHANGED <<BAL, S, isHandlingDeath, MM, timers, hidden>>

\* the import button
ImportSave ==
  /\ ~hidden
  /\ \E text \in ImportTexts :
       LET r == importSave(World, probe.storage, text)
       IN  /\ Len(r.w.MM.queue) <= MaxQueue
           /\ S' = r.w.S
           /\ MM' = r.w.MM
           /\ probe' = [probe EXCEPT !.storage = r.storage, !.imported = text]
  /\ UNCHANGED <<BAL, isHandlingDeath, timers, hidden>>

\* the page is opened again elapsedSec seconds after it was left
StartupAfter(elapsedSec) ==
  LET w == init(initialState(probe.storage), elapsedSec)
  IN  /\ S' = w.S
      /\ MM' = w.MM
      /\ isHandlingDeath' = w.isHandlingDeath
      /\ timers' = w.timers
      /\ hidden' = FALSE
      /\ UNCHANGED <<BAL, probe>>

Startup == \E elapsedSec \in OfflineInputs : StartupAfter(elapsedSec)

SaveInit ==
  /\ BAL = SimBalance
  /\ S \in SavedGames
  /\ isHandlingDeath = FALSE
  /\ MM = IdleModals
  /\ timers = NoTimers
  /\ hidden = FALSE
  /\ probe = [phase |-> "persist", storage |-> NoText, imported |-> NoText]

SaveNext ==
  \/ CloseModal
  \/ DisplayNextTimer
  \/ AutoSave
  \/ ImportSave
  \/ Startup

SaveSpec == SaveInit /\ [][SaveNext]_vars

\* the speeds a persisted object holds unlocked: its list and the base speeds
UnlockedIn(fields) ==
  (IF Has(fields, "meta") THEN fields.meta.unlockedSpeeds ELSE {})
    \cup BASE_SPEEDS_ALWAYS_AVAILABLE

HasLockedSpeed(text) ==
  /\ text.wellFormed /\ text.value.type = "object"
  /\ Has(text.value.fields, "timeSpeed")
  /\ text.value.fields.timeSpeed.current \notin UnlockedIn(text.value.fields)

Unarmored(text) == [text EXCEPT !.armored = FALSE]

NoticeShown(mm, modal) ==
  mm.currentOverlay = modal \/ \E i \in 1 .. Len(mm.queue) : mm.queue[i] = modal

\* C18: importSave given text that is not a valid encoded state object
\* (undecodable text, invalid JSON, JSON that is no state object) reports a
\* failure and leaves the state, and what is stored, as they were.
CorruptImportRejected ==
  \A text \in CorruptTexts :
    LET r == importSave(World, probe.storage, text)
    IN  /\ NoticeShown(r.w.MM, ImportFailedModal)
        /\ r.storage = probe.storage
        /\ r.w.S.qi = S.qi /\ r.w.S.realmIndex = S.realmIndex /\ r.w.S.stage = S.stage
        /\ r.w.S.skills = S.skills /\ r.w.S.reinc = S.reinc /\ r.w.S.meta = S.meta
        /\ r.w.S.flags = S.flags

\* C19: for every persisted text, importSave and load produce the same state.
ImportMatchesLoad ==
  \A text \in ImportTexts :
    importedState(text).ok => importedState(text).S = initialState(Unarmored(text))

\* C20: when storage holds a text written by save(), the game starts with
\* the saved realmIndex, stage, skills, meta, karma and reincarnation count,
\* and with no less Qi than was saved.
SaveLoadRoundTrip ==
  [][(Startup /\ probe.storage # NoText) =>
       /\ S'.realmIndex = probe.storage.value.fields.realmIndex
       /\ S'.stage = probe.storage.value.fields.stage
       /\ S'.skills = probe.storage.value.fields.skills
       /\ S'.meta = probe.storage.value.fields.meta
       /\ S'.reinc.karma = probe.storage.value.fields.reinc.karma
       /\ S'.reinc.times = probe.storage.value.fields.reinc.times
       /\ S'.qi >= probe.storage.value.fields.qi]_vars

\* an export whose ladder position was edited
LadderSave(s, realmIndex, stage) ==
  exportSave([s EXCEPT !.realmIndex = realmIndex, !.stage = stage])

\* a stage past the tenth, a realm past the last, and a stage before the first
EditedPositions == {<<1, StageCount + 1>>, <<RealmCount, 1>>, <<0, 0>>}

LadderTexts ==
  ImportTexts \cup {LadderSave(S, position[1], position[2]) : position \in EditedPositions}

OnLadder(s) == s.stage \in Stages /\ s.realmIndex \in Realms

\* C25: in every state reached by breakthroughs, deaths, reincarnations,
\* load and import, migration of older saves included, stage is an integer
\* in [1, 10] and realmIndex is one of the 11 realms.
LadderPositionBounded ==
  /\ OnLadder(S)
  /\ OnLadder(initialState(probe.storage))
  /\ \A text \in LadderTexts : OnLadder(importSave(World, probe.storage, text).w.S)

\* C26: whenever realmIndex = 0, totalQPS() is 0, so neither a frame of the
\* loop nor an offline catch-up changes qi while the player is in realm 0.
IdleLockedInRealmZero ==
  /\ [](S.realmIndex = 0 => totalQPS(S) = 0)
  /\ [][(S.realmIndex = 0 /\ (Loop \/ Show)) => S'.qi = S.qi]_vars

\* time has passed in realm 0 and this life has gathered nothing
AgedIdleInRealmZero ==
  S.realmIndex = 0 /\ S.age > 0 /\ S.qi = 0 /\ S.reinc.lifetimeQi = 0 /\ ~S.isDead

\* C27: once a death has been latched for a life and its acknowledgement
\* is pending, no voluntary or mandatory reincarnation applies a reset, a
\* prompt queued or open before the death included: the life ends with the
\* one reset and the one karma award of the acknowledgement.
LifeRewardedOnce ==
  [][isHandlingDeath => ~(VoluntaryResetApplied \/ MandatoryResetApplied)]_vars

(***************************************************************************)
(* The game on a wall clock.  probe keeps the clock in units of            *)
(* FrameSeconds: now, the loop's variable last, the time of the session    *)
(* snapshot (S.session.lastTs) and the time up to which an offline         *)
(* catch-up has credited.  requestAnimationFrame does not run while the    *)
(* page is hidden.                                                         *)
(***************************************************************************)
MaxClock == 3

ClockInit ==
  /\ BAL = SimBalance
  /\ S \in SavedGames
  /\ isHandlingDeath = FALSE
  /\ MM = IdleModals
  /\ timers = NoTimers
  /\ hidden = FALSE
  /\ probe = [phase |-> "clock", now |-> 0, last |-> 0, lastTs |-> 0, reconciled |-> 0]

Install(w) ==
  /\ S' = w.S
  /\ MM' = w.MM
  /\ isHandlingDeath' = w.isHandlingDeath
  /\ timers' = w.timers
  /\ UNCHANGED BAL

TimePasses ==
  /\ probe.now < MaxClock
  /\ probe' = [probe EXCEPT !.now = @ + 1]
  /\ UNCHANGED <<BAL, gameVars>>

\* rawDt = (nowMs - last) / 1000
rawDtAt(clock) == (clock.now - clock.last) * FrameSeconds

\* loop(): rawDt is the time since the previous frame, which becomes last
ClockFrame ==
  /\ ~hidden
  /\ probe.now > probe.last
  /\ Within(tick(World, rawDtAt(probe), loopSpeed(S)))
  /\ Install(tick(World, rawDtAt(probe), loopSpeed(S)))
  /\ probe' = [probe EXCEPT !.last = probe.now]
  /\ UNCHANGED hidden

\* visibilitychange to hidden: saveSessionSnapshot()
ClockHide ==
  /\ ~hidden
  /\ hidden' = TRUE
  /\ Install([World EXCEPT !.S = saveSessionSnapshot(S)])
  /\ probe' = [probe EXCEPT !.lastTs = probe.now]

\* the catch-up credits the time since the snapshot
Reconciles(s, clock) ==
  s.session.active /\ s.session.lastSpeed > 0 /\ clock.now > clock.lastTs

\* visibilitychange to visible: applyOfflineProgressOnResume()
ClockShow ==
  /\ hidden
  /\ hidden' = FALSE
  /\ Within(applyOfflineProgressOnResume(World, (probe.now - probe.lastTs) * FrameSeconds))
  /\ Install(applyOfflineProgressOnResume(World, (probe.now - probe.lastTs) * FrameSeconds))
  /\ probe' = [probe EXCEPT
                 !.reconciled = IF Reconciles(S, probe) THEN probe.now ELSE @]

ClockNext ==
  TimePasses \/ ClockFrame \/ ClockHide \/ ClockShow \/ CloseModal \/ DisplayNextTimer
ClockSpec == ClockInit /\ [][ClockNext]_vars

\* C28: elapsed time is credited once.  After an offline catch-up the
\* frames of the loop credit no Qi and no aging for the interval the
\* catch-up has reconciled: a frame's rawDt reaches back no further than
\* the catch-up.
ElapsedCreditedOnce ==
  [][ClockFrame =>
       /\ probe.last >= probe.reconciled
       /\ S'.qi - S.qi
            <= totalQPS(S) * (probe.now - probe.reconciled) * FrameSeconds
       /\ S'.age - S.age
            <= yearsFor((probe.now - probe.reconciled) * FrameSeconds, loopSpeed(S))]_vars

\* C29: while lifecycle.isReincarnating is set or the character is dead
\* with the acknowledgement pending, the offline catch-up on return to the
\* tab changes neither qi, reinc.lifetimeQi nor age, and raises no further
\* death notice.
OfflineRespectsGuard ==
  [][(Show /\ (S.lifecycle.isReincarnating \/ S.isDead)) =>
       /\ S'.qi = S.qi
       /\ S'.reinc.lifetimeQi = S.reinc.lifetimeQi
       /\ S'.age = S.age
       /\ DeathNotices(MM') = DeathNotices(MM)]_vars

\* the save written while the death notice of the running life is pending
PendingDeathSave == exportSave(handleLifespanEnd(World).S)

\* C30: after load() or importSave() of any blob, one written while a
\* death acknowledgement was pending included, lifecycle.isReincarnating is
\* false.
GuardNotPersisted ==
  /\ ~initialState(Unarmored(PendingDeathSave)).lifecycle.isReincarnating
  /\ \A text \in ImportTexts \cup {PendingDeathSave} :
        ~importSave(World, probe.storage, text).w.S.lifecycle.isReincarnating

\* the modals the core hands to the channel
ChannelModals == {InfoModal} \cup {[kind |-> kind, gain |-> 0] : kind \in ConfirmKinds}

\* the worlds the channel produces from the current one: a modal enqueued,
\* the next modal displayed by the timer, the displayed modal taken down
ChannelResults ==
  {_enqueue(World, data) : data \in ChannelModals}
    \cup (IF timers.displayNext THEN {_displayNext(World)} ELSE {})
    \cup (IF MM.currentOverlay # NoModal THEN {_cleanup(World)} ELSE {})

\* C31: enqueueing, displaying or dismissing a modal leaves every field of
\* the state unchanged, timeSpeed.current and timeSpeed.paused included.
ChannelWritesNoState == \A w \in ChannelResults : w.S = S

\* What the channel does write: no field of the state but timeSpeed.  Displaying
\* a modal sets timeSpeed.paused and keeps timeSpeed.current; taking the
\* last modal down restores the speed remembered at the pause, unpaused;
\* enqueueing behind a displayed modal writes nothing.
ChannelWritesOnlyTimeSpeed ==
  /\ \A w \in ChannelResults : [w.S EXCEPT !.timeSpeed = S.timeSpeed] = S
  /\ \A data \in ChannelModals :
        /\ MM.isActive => _enqueue(World, data).S = S
        /\ ~MM.isActive =>
              _enqueue(World, data).S.timeSpeed = [S.timeSpeed EXCEPT !.paused = TRUE]
  /\ timers.displayNext =>
        _displayNext(World).S.timeSpeed \in
          {S.timeSpeed, [S.timeSpeed EXCEPT !.paused = TRUE]}
  /\ MM.currentOverlay # NoModal =>
        _cleanup(World).S.timeSpeed \in
          {S.timeSpeed, [current |-> MM.previousTimeSpeed, paused |-> FALSE]}

\* a running game that the displayed modal has paused
PausedByModal ==
  /\ MM.currentOverlay # NoModal /\ MM.previousTimeSpeed # Null
  /\ S.timeSpeed.paused /\ S.timeSpeed.current # 0

\* the frame times, in seconds, a tickLifespan call is tried with
TickSeconds == {0 - FrameSeconds, 0, FrameSeconds}

\* tickLifespan returns on its guards: paused, dead, reincarnating, dt <= 0
TickGuarded(rawDt, speed) ==
  \/ S.timeSpeed.paused
  \/ S.isDead
  \/ S.lifecycle.isReincarnating
  \/ rawDt * speed <= 0

\* C32: in a realm with a finite max lifespan 0 <= age <= getMaxLifespan();
\* a tickLifespan call made while paused, dead, reincarnating or with
\* dt <= 0 leaves age unchanged, and any other call makes age
\* min(age + dt * yearsPerSecond, maxLifespan).
AgeWithinLifespan ==
  ~isImmortal(S) =>
    /\ 0 <= S.age
    /\ S.age <= getMaxLifespan(S, S.realmIndex)
    /\ \A rawDt \in TickSeconds, speed \in SpeedInputs :
          tickLifespan(World, rawDt, speed).S.age =
            IF TickGuarded(rawDt, speed) THEN S.age
            ELSE Min(S.age + yearsFor(rawDt, speed), getMaxLifespan(S, S.realmIndex))

\* a running mortal game part of the way through its life, whose next frame
\* at the selected speed reaches the end of the lifespan
AgedBelowLifespan ==
  /\ ~isImmortal(S) /\ ~TickGuarded(FrameSeconds, loopSpeed(S))
  /\ 0 < S.age /\ S.age < getMaxLifespan(S, S.realmIndex)
  /\ S.age + yearsFor(FrameSeconds, loopSpeed(S)) > getMaxLifespan(S, S.realmIndex)

\* ---- the rank ledger across realm advances ----

\* the largest quantity a purchase asks for, one above the cap of the
\* ranked skill
MaxRankQty == 3
\* the Qi, in whole Qi, a game holds beyond its next two requirements
SpareQi == {0, 100, 300, 700}
\* the realms whose last stages the games are placed in
RankRealms == {1, 2}

\* games at the end of a realm that can pay for the advance and for ranks
\* on both sides of it
RankGames ==
  { SavedGame(r, stage,
              RequirementAt(0, r, StageCount) + RequirementAt(0, r + 1, 1) + 100 * spare,
              0, 0, FALSE) :
      r \in RankRealms, stage \in {StageCount - 1, StageCount}, spare \in SpareQi }

RankInit ==
  /\ BAL = SimBalance
  /\ S \in RankGames
  /\ isHandlingDeath = FALSE
  /\ MM = IdleModals
  /\ timers = NoTimers
  /\ hidden = FALSE
  /\ probe = NoProbe

RankBuy ==
  /\ \E id \in SkillIds, qty \in 1 .. MaxRankQty :
       Commit([World EXCEPT !.S = buySkill(S, id, qty).S])
  /\ UNCHANGED hidden

RankBreakthrough ==
  /\ Commit(doBreakthrough(World))
  /\ UNCHANGED hidden

RankNext == RankBuy \/ RankBreakthrough
RankSpec == RankInit /\ [][RankNext]_vars

RankedSkills == {id \in SkillIds : ~BAL.skills[id].oneTime}

RECURSIVE SumPerRealm(_, _)
SumPerRealm(perRealm, realms) ==
  IF realms = {} THEN 0
  ELSE LET r == CHOOSE x \in realms : TRUE
       IN  perRealm[r] + SumPerRealm(perRealm, realms \ {r})

\* C33: for every ranked skill the ranks recorded for any realm never exceed
\* ranksPerRealm and total equals the sum of perRealm over all realms; after
\* a realm advance the ranks counted for the new realm are 0, up to
\* ranksPerRealm can be bought again, and the ranks of earlier realms are
\* kept.
RankCapPerRealm ==
  /\ [](\A id \in RankedSkills \cap DOMAIN S.skills :
          /\ \A r \in Realms : S.skills[id].perRealm[r] <= BAL.skills[id].ranksPerRealm
          /\ S.skills[id].total = SumPerRealm(S.skills[id].perRealm, Realms))
  /\ [][S'.realmIndex = S.realmIndex + 1 =>
          \A id \in RankedSkills :
            /\ currentRealmRanks(S', id) = 0
            /\ maxAffordableQty(S', id, MaxRankQty, RequirementAt(0, LAST_REALM, 1))
                 = BAL.skills[id].ranksPerRealm
            /\ S'.skills = S.skills]_vars

\* the cap reached in two realms in a row
CapReachedInTwoRealms ==
  \E id \in RankedSkills \cap DOMAIN S.skills :
    /\ S.realmIndex > 0
    /\ S.skills[id].perRealm[S.realmIndex] = BAL.skills[id].ranksPerRealm
    /\ S.skills[id].perRealm[S.realmIndex - 1] = BAL.skills[id].ranksPerRealm
    /\ S.skills[id].total = 2 * BAL.skills[id].ranksPerRealm

\* C34: a voluntary or mandatory reincarnation increases reinc.times by
\* exactly 1 and does not change stats.deaths; a death reset increases
\* stats.deaths by exactly 1 and does not change reinc.times; neither
\* counter ever decreases.
ReincarnationCounters ==
  [][/\ (VoluntaryResetApplied \/ MandatoryResetApplied) =>
          /\ S'.reinc.times = S.reinc.times + 1
          /\ S'.stats.deaths = S.stats.deaths
     /\ DeathAcknowledged =>
          /\ S'.stats.deaths = S.stats.deaths + 1
          /\ S'.reinc.times = S.reinc.times
     /\ S'.reinc.times >= S.reinc.times
     /\ S'.stats.deaths >= S.stats.deaths]_vars

\* the position moved one step up the ladder
AdvancedOneStep ==
  /\ HasNextPosition(S.realmIndex, S.stage)
  /\ S'.realmIndex = NextRealmOf(S.realmIndex, S.stage)
  /\ S'.stage = NextStageOf(S.realmIndex, S.stage)

\* C35: doBreakthrough() with qi below the requirement changes nothing;
\* whenever it reduces qi the position advances by exactly one step; a
\* breakthrough that does not advance (at the Spirit Transformation gate or
\* at the final realm's stage 10) leaves qi unchanged.
BreakthroughPaysOnlyToAdvance ==
  [][Breakthrough =>
       /\ S.qi < currentRequirement(S) => UNCHANGED vars
       /\ S'.qi < S.qi => AdvancedOneStep
       /\ ~AdvancedOneStep => S'.qi = S.qi]_vars

\* C36: the gate cannot be bypassed: a realm beyond Spirit Transformation is
\* held only with flags.unlockedBeyondSpirit and
\* flags.hasCompletedMandatoryST10 set.
GateNotBypassed ==
  S.realmIndex > ST_INDEX =>
    S.flags.unlockedBeyondSpirit /\ S.flags.hasCompletedMandatoryST10

\* the first stage of the realm after Spirit Transformation, entered by a
\* breakthrough of a life that has passed the gate
EnteredSpiritCycle ==
  /\ S.realmIndex = ST_INDEX + 1 /\ S.stage = 1
  /\ S.flags.unlockedBeyondSpirit /\ S.reinc.times > 0

\* the seconds away an offline catch-up is tried with: none, a frame, and
\* more than the cap
AwaySeconds == {0, FrameSeconds, BAL.offline.capHours * 3600 + FrameSeconds}

\* the world hidden with the given speed in its session snapshot
Away(speed) == [World EXCEPT !.S.session = [active |-> TRUE, lastSpeed |-> speed]]

\* w has the age of the current state and no death that the current state
\* does not have
Undying(w) ==
  /\ w.S.age = S.age
  /\ w.S.isDead = S.isDead
  /\ w.S.flags.lifespanHandled = S.flags.lifespanHandled
  /\ w.S.stats.deaths = S.stats.deaths
  /\ w.isHandlingDeath = isHandlingDeath
  /\ DeathNotices(w.MM) = DeathNotices(MM)

\* C37: in the last realm, whose max lifespan is null, no tick, gate check
\* or offline catch-up changes age or triggers a death, for any dt and
\* speed.
TerminalRealmImmortal ==
  S.realmIndex = LAST_REALM =>
    /\ getMaxLifespan(S, S.realmIndex) = Null
    /\ Undying(checkLifespanGate(World))
    /\ \A speed \in SpeedInputs :
          /\ \A rawDt \in TickSeconds :
                /\ Undying(tickLifespan(World, rawDt, speed))
                /\ Undying(tick(World, rawDt, speed))
          /\ \A elapsedSec \in AwaySeconds :
                Undying(applyOfflineProgressOnResume(Away(speed), elapsedSec))

\* a game of the last realm that has gathered Qi over frames and is hidden
\* with a running speed in its snapshot
ImmortalAway ==
  /\ S.realmIndex = LAST_REALM /\ hidden
  /\ S.session.active /\ S.session.lastSpeed > 0
  /\ 0 < S.qi /\ S.qi < MaxQi

====
